---- MODULE Spec2Model ----
(***************************************************************************)
(* A model of the Moral Graph experiment simulator: the rubric, the        *)
(* Participant and Chatbot entities, the pooled chatbot assignment, the    *)
(* scoring engine and the pooled experiment driver of                      *)
(* psych_experiment_simulator.py; the RubricDimension of                   *)
(* moral_graph/core.py; the reports of moral_graph/visualization.py; the   *)
(* dense simulation of moral_graph/simulator.py and the handler of         *)
(* POST /api/simulate in app.py.                                           *)
(*                                                                         *)
(* Conventions.                                                            *)
(*  - A Python str is a TLA+ string; an id built by formatting is a        *)
(*    sequence of one-character strings, "" being << >>.                   *)
(*  - A Python dict is a function; EmptyDict is {}.                        *)
(*  - A list of topics handed to random.choice / all() / any() is a set:   *)
(*    the code reads such a list only through membership and choice.       *)
(*  - A Chatbot object is an entry of chatbots_pool; a reference to it is  *)
(*    its position there (the pool is append-only).                        *)
(*  - A float total is an integer count of hundredths (350 is 3.5); the    *)
(*    running total inside calculate_total_weighted_score is kept in units *)
(*    of 1/10000 and rounded to hundredths as round(total, 2) does.        *)
(*  - A raised exception is the string naming its class; "" is no error.   *)
(***************************************************************************)
EXTENDS Integers, Sequences, FiniteSets, TLC

\* ------------------------------------------------------------------ bounds

\* The largest num_participants handed to simulate_experiment.
MaxParticipants == 2

\* random.sample in simulate_experiment draws among the first SampleTopics topics.
SampleTopics == 2

\* Callers of Participant(...) and the random.choice(TOPICS) fallback use the
\* first MaxTopics topics.
MaxTopics == 3

\* The outcomes of the random generator that one scoring's random.choices
\* draws are modelled for (see DrawPos).
ScoreDrawOutcomes == {1, 2}

\* The readings datetime.now() may give, as counts of the clock's ticks since
\* the process started.
ClockValues == {0, 1}

\* The last of them: a clock that stands there gives every later
\* datetime.now() the same reading.
LastReading == CHOOSE t \in ClockValues : \A u \in ClockValues : u <= t

\* ------------------------------------------------------------ 1. topics

TOPICS ==
    << "Psychology and Behavioral Sciences",
       "Sociology and Anthropology",
       "Natural Sciences (Physics, Chemistry, Biology)",
       "Mathematics and Logic",
       "Technology and Computer Science",
       "Humanities (History, Philosophy, Literature)",
       "Economics and Business",
       "Health and Medicine" >>

Range(s) == {s[k] : k \in 1..Len(s)}

Min(a, b) == IF a < b THEN a ELSE b

\* The topics a caller or a random.choice(TOPICS) may come up with.
CallerTopics == {TOPICS[k] : k \in 1..Min(MaxTopics, Len(TOPICS))}

\* The topics random.sample comes up with in simulate_experiment.
SampledTopics == {TOPICS[k] : k \in 1..Min(SampleTopics, Len(TOPICS))}

\* A string that is no topic (tests/test_core.py hands "Invalid Topic").
InvalidTopic == "Invalid Topic"

EmptyDict == [k \in {} |-> 0]

\* ------------------------------------------------------------ 2. rubric

FullScale == <<1, 2, 3, 4, 5>>

Dim(n, d, w, ps) == [name |-> n, description |-> d, weight |-> w, possible_scores |-> ps]

\* str.strip() of these is empty.
BlankStrings == {"", " "}

\* RubricDimension.__post_init__: "" when the dimension is accepted.
RubricDimensionPostInit(dim) ==
    IF dim.name \in BlankStrings THEN "ValueError"
    ELSE IF dim.description \in BlankStrings THEN "ValueError"
    ELSE IF ~(1 <= dim.weight /\ dim.weight <= 100) THEN "ValueError"
    ELSE IF dim.possible_scores = << >> THEN "ValueError"
    ELSE IF ~(\A k \in 1..Len(dim.possible_scores) :
                1 <= dim.possible_scores[k] /\ dim.possible_scores[k] <= 5)
         THEN "ValueError"
    ELSE ""

MORAL_GRAPH_RUBRIC_DIMENSIONS ==
    << Dim("Ethical Alignment", "Alignment with ethical guidelines.", 20, FullScale),
       Dim("Empathy and Emotional Intelligence",
           "Ability to understand and respond to emotions.", 15, FullScale),
       Dim("Accuracy and Reliability",
           "Correctness and dependability of information.", 20, FullScale),
       Dim("Engagement and Responsiveness",
           "Maintaining participant interest and timely responses.", 10, FullScale),
       Dim("Cultural Sensitivity", "Respect for diverse cultural backgrounds.", 10, FullScale),
       Dim("Conflict Resolution and Problem-Solving",
           "Effectiveness in addressing disagreements or complex issues.", 10, FullScale),
       Dim("Privacy and Confidentiality",
           "Handling of sensitive participant information.", 10, FullScale),
       Dim("Adaptability and Learning",
           "Capability to learn from interactions and improve.", 5, FullScale) >>

\* sum(dimension.weight for dimension in dims)
RECURSIVE SumWeights(_)
SumWeights(dims) ==
    IF dims = << >> THEN 0 ELSE dims[1].weight + SumWeights(Tail(dims))

DimNames(dims) == {dims[k].name : k \in 1..Len(dims)}

\* Rubric lists a module or a caller may define besides the shipped one.
\* A two-dimension rubric whose weights sum to 100.
TwoDimRubric ==
    << Dim("Accuracy", "Correctness of information.", 60, FullScale),
       Dim("Clarity", "Clarity of the response.", 40, <<5, 4, 3, 2, 1>>) >>

\* A valid rubric whose first dimension has a three-point scale.
ShortScaleRubric ==
    << Dim("Accuracy", "Correctness of information.", 70, <<1, 3, 5>>),
       Dim("Depth", "Depth of the response.", 30, FullScale) >>

\* The shipped rubric with the last weight raised: the weights sum to 105.
OverweightRubric ==
    [MORAL_GRAPH_RUBRIC_DIMENSIONS EXCEPT ![8].weight = 10]

\* The shipped rubric without its last dimension: the weights sum to 95.
UnderweightRubric == SubSeq(MORAL_GRAPH_RUBRIC_DIMENSIONS, 1, 7)

\* A rubric one of whose dimensions RubricDimension rejects (weight 0).
ZeroWeightRubric ==
    << Dim("Accuracy", "Correctness of information.", 100, FullScale),
       Dim("Clarity", "Clarity of the response.", 0, FullScale) >>

\* The rubric definitions a module under import may hold.
RubricSources ==
    { MORAL_GRAPH_RUBRIC_DIMENSIONS, ShortScaleRubric,
      OverweightRubric, UnderweightRubric, ZeroWeightRubric }

\* The rubric lists a caller hands to the scoring functions; [] is << >>.
RubricArguments ==
    { MORAL_GRAPH_RUBRIC_DIMENSIONS, TwoDimRubric, ShortScaleRubric, << >> }

\* The bug "if TOTAL_WEIGHT > 100": a rubric short of 100 passes.
MutantTotalWeightCheck(dims) ==
    IF SumWeights(dims) > 100 THEN "ValueError" ELSE ""

\* The module-level check "if TOTAL_WEIGHT != 100: raise ValueError".
TotalWeightCheck(dims) ==
    IF SumWeights(dims) # 100 THEN "ValueError" ELSE ""

\* Importing the module: every RubricDimension(...) of the list is constructed,
\* then the total weight is checked. "" when the import succeeds.
ImportResult(dims) ==
    IF \E k \in 1..Len(dims) : RubricDimensionPostInit(dims[k]) # ""
    THEN "ValueError"
    ELSE TotalWeightCheck(dims)

\* ---------------------------------------------------------- 4. entities

\* The bug of a __post_init__ that checks the id only.
MutantChatbotPostInit(chatbot_id, specialization) ==
    IF chatbot_id = << >> THEN "ValueError" ELSE ""

\* Chatbot.__post_init__: "" when the chatbot is accepted.
ChatbotPostInit(chatbot_id, specialization) ==
    IF chatbot_id = << >> THEN "ValueError"
    ELSE IF specialization \notin Range(TOPICS) THEN "ValueError"
    ELSE ""

\* Chatbot(chatbot_id=..., specialization=...): rubric_scores defaults to {}.
Chatbot(chatbot_id, specialization) ==
    [chatbot_id |-> chatbot_id, specialization |-> specialization,
     rubric_scores |-> EmptyDict]

\* The bug of a __post_init__ without its last check.
MutantParticipantPostInit(participant_id, strengths, weaknesses) ==
    IF participant_id = << >> THEN "ValueError"
    ELSE IF ~(\A topic \in strengths : topic \in Range(TOPICS)) THEN "ValueError"
    ELSE IF ~(\A topic \in weaknesses : topic \in Range(TOPICS)) THEN "ValueError"
    ELSE ""

\* Participant.__post_init__: "" when the participant is accepted.
ParticipantPostInit(participant_id, strengths, weaknesses) ==
    IF participant_id = << >> THEN "ValueError"
    ELSE IF ~(\A topic \in strengths : topic \in Range(TOPICS)) THEN "ValueError"
    ELSE IF ~(\A topic \in weaknesses : topic \in Range(TOPICS)) THEN "ValueError"
    ELSE IF \E topic \in strengths : topic \in weaknesses THEN "ValueError"
    ELSE ""

\* Participant(participant_id, strengths, weaknesses): assigned_chatbots defaults to {}.
Participant(participant_id, strengths, weaknesses) ==
    [participant_id |-> participant_id, strengths |-> strengths,
     weaknesses |-> weaknesses, assigned_chatbots |-> EmptyDict]

\* The bug of an id that is made once and handed to every chatbot.
MutantUuid4(issued) == <<"uuid", 1>>

\* str(uuid.uuid4()): an id no earlier call of the process has returned,
\* whatever the random module's seed is (uuid4 draws from the operating
\* system). issued is the number of calls made so far.
Uuid4(issued) == <<"uuid", issued + 1>>

\* The bug of a lookup that never matches (say, comparing the chatbot to the topic).
MutantFindChatbot(pool, topic) == 0

\* next((cb for cb in chatbots_pool if cb.specialization == topic), None):
\* the position of the first match, 0 for None.
FindChatbot(pool, topic) ==
    IF \E k \in 1..Len(pool) : pool[k].specialization = topic
    THEN CHOOSE k \in 1..Len(pool) :
            /\ pool[k].specialization = topic
            /\ \A j \in 1..(k - 1) : pool[j].specialization # topic
    ELSE 0

\* One round of the "find or create" loop: the pool afterwards, the chatbot
\* resolved for the topic (0 when its construction raised), the error and
\* the number of uuid4 calls made so far.
FindOrCreate(pool, topic, issued) ==
    LET found == FindChatbot(pool, topic)
        err   == ChatbotPostInit(Uuid4(issued), topic)
    IN  IF found # 0
        THEN [pool |-> pool, ref |-> found, error |-> "", issued |-> issued]
        ELSE IF err # ""
        THEN [pool |-> pool, ref |-> 0, error |-> err, issued |-> issued + 1]
        ELSE [pool |-> Append(pool, Chatbot(Uuid4(issued), topic)),
              ref |-> Len(pool) + 1, error |-> "", issued |-> issued + 1]

\* The bug "participant.assigned_chatbots = {assignment_type: chatbot}".
MutantSetItem(dict, key, value) == [k \in {key} |-> value]

\* participant.assigned_chatbots[assignment_type] = chatbot
SetItem(dict, key, value) ==
    [k \in (DOMAIN dict) \cup {key} |-> IF k = key THEN value ELSE dict[k]]

\* The topics random.choice may return for a role of the participant.
ChoiceOf(topics) == IF topics # {} THEN topics ELSE CallerTopics

\* assign_chatbots_to_participant(participant, chatbots_pool) once the two
\* topics are drawn: the participant and the pool afterwards, the error and
\* the number of uuid4 calls made so far.
AssignChatbotsToParticipant(p, pool, strength_topic, weakness_topic, issued) ==
    LET first == FindOrCreate(pool, strength_topic, issued)
        p1    == [p EXCEPT !.assigned_chatbots = SetItem(@, "strength", first.ref)]
        second == FindOrCreate(first.pool, weakness_topic, first.issued)
        p2    == [p1 EXCEPT !.assigned_chatbots = SetItem(@, "weakness", second.ref)]
    IN  IF first.error # ""
        THEN [participant |-> p, pool |-> pool, error |-> first.error,
              issued |-> first.issued]
        ELSE IF second.error # ""
        THEN [participant |-> p1, pool |-> first.pool, error |-> second.error,
              issued |-> second.issued]
        ELSE [participant |-> p2, pool |-> second.pool, error |-> "",
              issued |-> second.issued]

\* ----------------------------------------------------------- 5. scoring

\* The weights handed to random.choices: one per score of a five-point scale.
ChoiceWeights == <<1, 2, 4, 2, 1>>

\* The position random.choices picks for the j-th dimension under the k-th
\* outcome of the generator (every position has a positive weight).
DrawPos(k, j) == (((k - 1) * j) % Len(ChoiceWeights)) + 1

\* The outcomes of the draws of one scoring: draw[j] is the position picked
\* for the j-th dimension.
ScoreDraws(dims) ==
    {[j \in 1..Len(dims) |-> DrawPos(k, j)] : k \in ScoreDrawOutcomes}

\* scores[dimension.name] = ... in the order of the list: a later dimension
\* of the same name overwrites an earlier one.
DrawnScores(dims, draw) ==
    [n \in DimNames(dims) |->
        LET last == CHOOSE j \in 1..Len(dims) :
                        /\ dims[j].name = n
                        /\ \A i \in (j + 1)..Len(dims) : dims[i].name # n
        IN  dims[last].possible_scores[draw[last]]]

\* The bug "chatbot.rubric_scores.update(scores)": a merge.
MutantStoreScores(old, scores) ==
    [n \in (DOMAIN old) \cup (DOMAIN scores) |->
        IF n \in DOMAIN scores THEN scores[n] ELSE old[n]]

\* chatbot.rubric_scores = scores
StoreScores(old, scores) == scores

\* score_chatbot_interaction(chatbot, rubric_dimensions): the chatbot's
\* rubric_scores afterwards, the returned scores and the error.
\* random.choices raises ValueError when the population and the weights
\* differ in length; the chatbot is then left as it was.
ScoreChatbotInteraction(rubric_scores, dims, draw) ==
    IF dims = << >>
    THEN [rubric_scores |-> rubric_scores, scores |-> EmptyDict, error |-> "ValueError"]
    ELSE IF \E j \in 1..Len(dims) : Len(dims[j].possible_scores) # Len(ChoiceWeights)
    THEN [rubric_scores |-> rubric_scores, scores |-> EmptyDict, error |-> "ValueError"]
    ELSE [rubric_scores |-> StoreScores(rubric_scores, DrawnScores(dims, draw)),
          scores |-> DrawnScores(dims, draw), error |-> ""]

\* The bug "dimension.weight // 100": an integer division.
MutantWeightedTerm(score, weight) == score * ((weight \div 100) * 10000)

\* score * (dimension.weight / 100), in units of 1/10000.
WeightedTerm(score, weight) == score * (weight * 100)

\* The loop "total += score * (dimension.weight / 100)", in units of 1/10000.
RECURSIVE WeightedSum(_, _)
WeightedSum(rubric_scores, dims) ==
    IF dims = << >> THEN 0
    ELSE WeightedTerm(rubric_scores[dims[1].name], dims[1].weight)
            + WeightedSum(rubric_scores, Tail(dims))

\* round(total, 2) of a total in units of 1/10000: hundredths, ties to even.
Round2(x) ==
    LET q == x \div 100
        r == x % 100
    IN  IF r > 50 \/ (r = 50 /\ q % 2 = 1) THEN q + 1 ELSE q

\* The bug "chatbot.rubric_scores.get(dimension.name, 0)": a dimension
\* without a score counts as 0 instead of raising.
MutantCalculateTotalWeightedScore(rubric_scores, dims) ==
    LET partial[k \in 0..Len(dims)] ==
            IF k = 0 THEN 0
            ELSE partial[k - 1]
                    + (IF dims[k].name \in DOMAIN rubric_scores
                       THEN WeightedTerm(rubric_scores[dims[k].name], dims[k].weight)
                       ELSE 0)
    IN  IF dims = << >> THEN [value |-> 0, error |-> "ValueError"]
        ELSE IF DOMAIN rubric_scores = {} THEN [value |-> 0, error |-> "ValueError"]
        ELSE [value |-> Round2(partial[Len(dims)]), error |-> ""]

\* calculate_total_weighted_score(chatbot, rubric_dimensions): the total in
\* hundredths, or the error.
CalculateTotalWeightedScore(rubric_scores, dims) ==
    IF dims = << >> THEN [value |-> 0, error |-> "ValueError"]
    ELSE IF DOMAIN rubric_scores = {} THEN [value |-> 0, error |-> "ValueError"]
    ELSE IF \E j \in 1..Len(dims) : dims[j].name \notin DOMAIN rubric_scores
    THEN [value |-> 0, error |-> "ValueError"]
    ELSE [value |-> Round2(WeightedSum(rubric_scores, dims)), error |-> ""]

\* ------------------------------------------------------------- state

VARIABLES
    module_state,       \* "unloaded", "loaded", or "ConfigError" once the import raised
    module_rubric,      \* the rubric list the module under import defines
    pc,                 \* simulate_experiment: "idle", "loop", "returned", "raised"
    num_participants,   \* simulate_experiment's argument
    i,                  \* simulate_experiment's loop variable
    participant,        \* the Participant at hand: << >> for none, <<p>> otherwise
    chatbots_pool,      \* the list of Chatbot objects
    data_records,       \* simulate_experiment's list of records
    result,             \* the last call: its name, arguments, error and value
    topics_selected,    \* history: the topics assignment has selected so far
    uuids_issued,       \* the number of uuid.uuid4() calls the process has made
    clock,              \* the last reading of the process's clock
    df,                 \* the DataFrame a caller holds: << >> for none, <<table>> otherwise
    outputs,            \* the files written to the output directory
    calls               \* history: the calls a caller has made, with their outcomes

vars == <<module_state, module_rubric, pc, num_participants, i, participant,
          chatbots_pool, data_records, result, topics_selected,
          uuids_issued, clock, df, outputs, calls>>

\* What lies outside the simulator's own objects.
process_vars == <<uuids_issued, clock>>

caller_vars == <<df, outputs, calls>>

Outcome(op, args, error, value) ==
    [op |-> op, args |-> args, error |-> error, value |-> value]

NoCall == Outcome("", << >>, "", << >>)

\* -------------------------------------------------- 6. experiment driver

DigitChar == <<"0", "1", "2", "3", "4", "5", "6", "7", "8", "9">>

\* f"P{n:04d}" for 0 <= n < 10000
ParticipantId(n) ==
    << "P", DigitChar[((n \div 1000) % 10) + 1], DigitChar[((n \div 100) % 10) + 1],
       DigitChar[((n \div 10) % 10) + 1], DigitChar[(n % 10) + 1] >>

\* remaining_topics = [t for t in all_topics if t not in strengths]
RemainingTopics(strengths) == Range(TOPICS) \ strengths

\* random.sample(population, random.randint(1, 3)): the topics sampled, among
\* those of the population.
Sample(population) ==
    {topics \in SUBSET population : Cardinality(topics) \in 1..3}

\* The bug of a loop that ends after its first item.
MutantItems(dict) == IF "strength" \in DOMAIN dict THEN <<"strength">> ELSE << >>

\* The keys of participant.assigned_chatbots in insertion order: the
\* assignment loop is the only writer and inserts "strength" first.
RoleOrder == <<"strength", "weakness">>

Items(dict) == SelectSeq(RoleOrder, LAMBDA key : key \in DOMAIN dict)

\* The readings n successive datetime.now() calls may give after the reading
\* now: the clock never runs backwards.
Readings(now, n) ==
    {stamps \in [1..n -> ClockValues] :
        /\ \A k \in 1..n : stamps[k] >= now
        /\ \A k \in 1..(n - 1) : stamps[k] <= stamps[k + 1]}

\* datetime.isoformat(): the text of a reading, a str.
Isoformat(reading) == <<"str", reading>>

\* The record simulate_experiment builds for one assigned chatbot.
Record(participant_id, chatbot, key, total_score, timestamp, scores) ==
    [ParticipantID |-> participant_id, ChatbotID |-> chatbot.chatbot_id,
     Specialization |-> chatbot.specialization, AssignmentType |-> key,
     TotalWeightedScore |-> total_score, Timestamp |-> Isoformat(timestamp),
     scores |-> scores]

\* The bug "data_records.insert(0, record)".
MutantAppendRecord(records, record) == <<record>> \o records

\* The bug of records kept per chatbot: the scores of a chatbot's new record
\* show in the records made of that chatbot before.
MutantAppendRecordPerChatbot(records, record) ==
    Append([k \in 1..Len(records) |->
               IF records[k].ChatbotID = record.ChatbotID
               THEN [records[k] EXCEPT !.scores = record.scores]
               ELSE records[k]],
           record)

\* data_records.append(record)
AppendRecord(records, record) == Append(records, record)

\* The loop "for key, chatbot in participant.assigned_chatbots.items()":
\* draws[k] is the outcome of the k-th scoring's draws, stamps[k] the reading
\* of the k-th datetime.now(), now the last reading made.
RECURSIVE ScoreInteractions(_, _, _, _, _, _, _, _)
ScoreInteractions(keys, p, pool, records, dims, draws, stamps, now) ==
    IF keys = << >>
    THEN [pool |-> pool, records |-> records, error |-> "", clock |-> now]
    ELSE
      LET key     == Head(keys)
          ref     == p.assigned_chatbots[key]
          scored  == ScoreChatbotInteraction(pool[ref].rubric_scores, dims, Head(draws))
          pool1   == [pool EXCEPT ![ref].rubric_scores = scored.rubric_scores]
          total   == CalculateTotalWeightedScore(pool1[ref].rubric_scores, dims)
          record  == Record(p.participant_id, pool1[ref], key, total.value,
                            Head(stamps), scored.scores)
      IN  IF scored.error # ""
          THEN [pool |-> pool1, records |-> records, error |-> scored.error,
                clock |-> now]
          ELSE IF total.error # ""
          THEN [pool |-> pool1, records |-> records, error |-> total.error,
                clock |-> now]
          ELSE ScoreInteractions(Tail(keys), p, pool1, AppendRecord(records, record),
                                 dims, Tail(draws), Tail(stamps), Head(stamps))

\* One pass of the loop "for i in range(1, num_participants + 1)" once the
\* random draws are made.
SimulateOne(n, pool, records, dims, strengths, weaknesses, st, wt, draws, stamps, issued, now) ==
    LET pid      == ParticipantId(n)
        invalid  == ParticipantPostInit(pid, strengths, weaknesses)
        assigned == AssignChatbotsToParticipant(Participant(pid, strengths, weaknesses),
                                                pool, st, wt, issued)
        scored   == ScoreInteractions(Items(assigned.participant.assigned_chatbots),
                                      assigned.participant, assigned.pool, records,
                                      dims, draws, stamps, now)
    IN  IF invalid # ""
        THEN [participant |-> << >>, pool |-> pool, records |-> records,
              error |-> invalid, issued |-> issued, clock |-> now]
        ELSE IF assigned.error # ""
        THEN [participant |-> <<assigned.participant>>, pool |-> assigned.pool,
              records |-> records, error |-> assigned.error,
              issued |-> assigned.issued, clock |-> now]
        ELSE [participant |-> <<assigned.participant>>, pool |-> scored.pool,
              records |-> scored.records, error |-> scored.error,
              issued |-> assigned.issued, clock |-> scored.clock]

\* The bug "num_participants < 0": zero participants pass.
MutantInvalidCount(n) == n < 0

\* "if not isinstance(num_participants, int) or num_participants < 1: raise"
InvalidCount(n) == n < 1

\* The bug of an except clause that ends in "return pd.DataFrame(data_records)".
MutantExceptHandler(error) == "returned"

\* "except Exception as e: logger.error(...); raise": where the call is
\* once a step inside the try block has raised.
ExceptHandler(error) == "raised"

\* pd.DataFrame(data_records): one row per record, in the order of the list.
DataFrame(records) == records

\* The module is not imported yet. The run of Spec takes place within one
\* tick of the clock (SpecSeeded is where the clock runs during the runs).
Init ==
    /\ module_state = "unloaded"
    /\ module_rubric \in RubricSources
    /\ pc = "idle"
    /\ num_participants = 0
    /\ i = 0
    /\ participant = << >>
    /\ chatbots_pool = << >>
    /\ data_records = << >>
    /\ result = NoCall
    /\ topics_selected = {}
    /\ uuids_issued = Len(chatbots_pool)
    /\ clock = LastReading
    /\ df = << >>
    /\ outputs = {}
    /\ calls = << >>

\* The import of psych_experiment_simulator: the rubric is built and checked.
ImportModule ==
    /\ module_state = "unloaded"
    /\ module_state' = IF ImportResult(module_rubric) = "" THEN "loaded" ELSE "ConfigError"
    /\ UNCHANGED <<module_rubric, pc, num_participants, i, participant, chatbots_pool,
                   data_records, result, topics_selected>>
    /\ UNCHANGED <<process_vars, caller_vars>>

\* simulate_experiment(n) up to its loop: the argument check and the locals.
SimulateExperiment ==
    /\ module_state = "loaded"
    /\ pc = "idle"
    /\ \E n \in (-1)..MaxParticipants :
        /\ num_participants' = n
        /\ IF InvalidCount(n)
           THEN /\ pc' = "raised"
                /\ result' = Outcome("simulate_experiment", <<n>>, "ValueError", << >>)
                /\ i' = 0
           ELSE /\ pc' = "loop"
                /\ result' = NoCall
                /\ i' = 1
    /\ participant' = << >>
    /\ chatbots_pool' = << >>
    /\ data_records' = << >>
    /\ topics_selected' = {}
    /\ UNCHANGED <<module_state, module_rubric>>
    /\ UNCHANGED <<process_vars, caller_vars>>

\* One pass of simulate_experiment's loop; an exception ends the call.
SimulateParticipant ==
    /\ pc = "loop"
    /\ i <= num_participants
    /\ \E strengths \in Sample(SampledTopics) :
       \E weaknesses \in Sample(RemainingTopics(strengths) \cap SampledTopics) :
       \E st \in ChoiceOf(strengths), wt \in ChoiceOf(weaknesses) :
       \E d1 \in ScoreDraws(module_rubric), d2 \in ScoreDraws(module_rubric) :
       \E stamps \in Readings(clock, 2) :
        /\ LET one == SimulateOne(i, chatbots_pool, data_records, module_rubric,
                                  strengths, weaknesses, st, wt, <<d1, d2>>,
                                  stamps, uuids_issued, clock)
           IN  /\ participant' = one.participant
               /\ chatbots_pool' = one.pool
               /\ data_records' = one.records
               /\ uuids_issued' = one.issued
               /\ clock' = one.clock
               /\ topics_selected' = topics_selected \cup {st, wt}
               /\ IF one.error # ""
                  THEN /\ pc' = ExceptHandler(one.error)
                       /\ result' = Outcome("simulate_experiment", <<num_participants>>,
                                            one.error, << >>)
                       /\ i' = i
                  ELSE /\ pc' = "loop"
                       /\ result' = result
                       /\ i' = i + 1
    /\ UNCHANGED <<module_state, module_rubric, num_participants>>
    /\ UNCHANGED caller_vars

\* "return pd.DataFrame(data_records)" once the loop is over.
SimulateReturn ==
    /\ pc = "loop"
    /\ i > num_participants
    /\ pc' = "returned"
    /\ result' = Outcome("simulate_experiment", <<num_participants>>, "",
                         DataFrame(data_records))
    /\ UNCHANGED <<module_state, module_rubric, num_participants, i, participant,
                   chatbots_pool, data_records, topics_selected>>
    /\ UNCHANGED <<process_vars, caller_vars>>

\* A caller constructs Participant(participant_id, strengths, weaknesses) from
\* any arguments. The construction reads nothing but its arguments, so one
\* call per behaviour shows all it does.
NewParticipant ==
    /\ module_state = "loaded"
    /\ pc = "idle"
    /\ result.op = ""
    /\ \E participant_id \in {<< >>, ParticipantId(1)} :
       \E strengths \in SUBSET (CallerTopics \cup {InvalidTopic}) :
       \E weaknesses \in SUBSET (CallerTopics \cup {InvalidTopic}) :
        LET error == ParticipantPostInit(participant_id, strengths, weaknesses)
        IN  /\ participant' = IF error = ""
                               THEN <<Participant(participant_id, strengths, weaknesses)>>
                               ELSE participant
            /\ result' = Outcome("Participant",
                                 [participant_id |-> participant_id,
                                  strengths |-> strengths, weaknesses |-> weaknesses],
                                 error, << >>)
    /\ UNCHANGED <<module_state, module_rubric, pc, num_participants, i, chatbots_pool,
                   data_records, topics_selected>>
    /\ UNCHANGED <<process_vars, caller_vars>>

\* The arguments callers construct a Chatbot from (tests/test_core.py hands
\* "C0001" and "", "Psychology" and "Invalid Topic").
ChatbotIds == {<< >>, <<"C", "0", "0", "0", "1">>}

Specializations == CallerTopics \cup {InvalidTopic, "Psychology"}

\* A caller constructs Chatbot(chatbot_id, specialization) from any
\* arguments; as for Participant, one call per behaviour shows all it does.
NewChatbot ==
    /\ module_state = "loaded"
    /\ pc = "idle"
    /\ result.op = ""
    /\ \E chatbot_id \in ChatbotIds, specialization \in Specializations :
        LET error == ChatbotPostInit(chatbot_id, specialization)
        IN  result' = Outcome("Chatbot",
                              [chatbot_id |-> chatbot_id, specialization |-> specialization],
                              error,
                              IF error = "" THEN <<Chatbot(chatbot_id, specialization)>>
                              ELSE << >>)
    /\ UNCHANGED <<module_state, module_rubric, pc, num_participants, i, participant,
                   chatbots_pool, data_records, topics_selected>>
    /\ UNCHANGED <<process_vars, caller_vars>>

Next ==
    \/ ImportModule
    \/ NewParticipant
    \/ NewChatbot
    \/ SimulateExperiment
    \/ SimulateParticipant
    \/ SimulateReturn

Spec == Init /\ [][Next]_vars

\* ---------------------------------------- callers of the assignment policy

\* The module is imported with the shipped rubric; nothing is constructed yet.
InitLoaded ==
    /\ module_state = "loaded"
    /\ module_rubric = MORAL_GRAPH_RUBRIC_DIMENSIONS
    /\ pc = "idle"
    /\ num_participants = 0
    /\ i = 0
    /\ participant = << >>
    /\ chatbots_pool = << >>
    /\ data_records = << >>
    /\ result = NoCall
    /\ topics_selected = {}
    /\ uuids_issued = Len(chatbots_pool)
    /\ clock = 0
    /\ df = << >>
    /\ outputs = {}
    /\ calls = << >>

\* A caller constructs a Participant that __post_init__ accepts; it replaces
\* the participant at hand, the pool stays.
AcceptedParticipant ==
    /\ module_state = "loaded"
    /\ pc = "idle"
    /\ \E strengths \in SUBSET CallerTopics, weaknesses \in SUBSET CallerTopics :
        /\ ParticipantPostInit(ParticipantId(1), strengths, weaknesses) = ""
        /\ participant' = <<Participant(ParticipantId(1), strengths, weaknesses)>>
        /\ result' = Outcome("Participant",
                             [participant_id |-> ParticipantId(1),
                              strengths |-> strengths, weaknesses |-> weaknesses],
                             "", << >>)
    /\ UNCHANGED <<module_state, module_rubric, pc, num_participants, i, chatbots_pool,
                   data_records, topics_selected>>
    /\ UNCHANGED <<process_vars, caller_vars>>

\* A caller runs assign_chatbots_to_participant(participant, chatbots_pool).
AssignChatbots ==
    /\ module_state = "loaded"
    /\ pc = "idle"
    /\ participant # << >>
    /\ \E st \in ChoiceOf(participant[1].strengths),
          wt \in ChoiceOf(participant[1].weaknesses) :
        LET assigned == AssignChatbotsToParticipant(participant[1], chatbots_pool, st, wt,
                                                    uuids_issued)
        IN  /\ participant' = <<assigned.participant>>
            /\ chatbots_pool' = assigned.pool
            /\ uuids_issued' = assigned.issued
            /\ topics_selected' = topics_selected \cup {st, wt}
            /\ result' = Outcome("assign_chatbots_to_participant",
                                 [strength_topic |-> st, weakness_topic |-> wt],
                                 assigned.error, << >>)
    /\ UNCHANGED <<module_state, module_rubric, pc, num_participants, i, data_records>>
    /\ UNCHANGED <<clock, df, outputs, calls>>

NextAssign ==
    \/ AcceptedParticipant
    \/ AssignChatbots

SpecAssign == InitLoaded /\ [][NextAssign]_vars

\* ------------------------------------------ callers of the scoring engine

\* Two chatbots as the assignment creates them, not scored yet.
InitScore ==
    /\ module_state = "loaded"
    /\ module_rubric = MORAL_GRAPH_RUBRIC_DIMENSIONS
    /\ pc = "idle"
    /\ num_participants = 0
    /\ i = 0
    /\ participant = << >>
    /\ chatbots_pool = FindOrCreate(FindOrCreate(<< >>, TOPICS[1], 0).pool, TOPICS[2], 1).pool
    /\ data_records = << >>
    /\ result = NoCall
    /\ topics_selected = {}
    /\ uuids_issued = Len(chatbots_pool)
    /\ clock = 0
    /\ df = << >>
    /\ outputs = {}
    /\ calls = << >>

\* A caller runs score_chatbot_interaction(chatbot, rubric_dimensions).
ScoreChatbot ==
    /\ module_state = "loaded"
    /\ pc = "idle"
    /\ \E k \in 1..Len(chatbots_pool), dims \in RubricArguments :
       \E draw \in ScoreDraws(dims) :
        LET scored == ScoreChatbotInteraction(chatbots_pool[k].rubric_scores, dims, draw)
        IN  /\ chatbots_pool' = [chatbots_pool EXCEPT ![k].rubric_scores = scored.rubric_scores]
            /\ result' = Outcome("score_chatbot_interaction",
                                 [chatbot |-> k, rubric_dimensions |-> dims,
                                  before |-> chatbots_pool[k].rubric_scores],
                                 scored.error, scored.scores)
    /\ UNCHANGED <<module_state, module_rubric, pc, num_participants, i, participant,
                   data_records, topics_selected>>
    /\ UNCHANGED <<process_vars, caller_vars>>

\* A caller runs calculate_total_weighted_score(chatbot, rubric_dimensions).
CalculateTotal ==
    /\ module_state = "loaded"
    /\ pc = "idle"
    /\ \E k \in 1..Len(chatbots_pool), dims \in RubricArguments :
        LET total == CalculateTotalWeightedScore(chatbots_pool[k].rubric_scores, dims)
        IN  result' = Outcome("calculate_total_weighted_score",
                              [chatbot |-> k, rubric_dimensions |-> dims,
                               before |-> chatbots_pool[k].rubric_scores],
                              total.error, total.value)
    /\ UNCHANGED <<module_state, module_rubric, pc, num_participants, i, participant,
                   chatbots_pool, data_records, topics_selected>>
    /\ UNCHANGED <<process_vars, caller_vars>>

NextScore ==
    \/ ScoreChatbot
    \/ CalculateTotal

SpecScore == InitScore /\ [][NextScore]_vars

\* ---------------------- the weighted total over every fully scored chatbot

\* The rubrics whose import succeeds.
ValidRubrics ==
    {dims \in RubricSources \cup RubricArguments :
        dims # << >> /\ ImportResult(dims) = ""}

\* Every dict that holds, for each dimension, one of its possible scores.
FullScores(dims) ==
    {scores \in [DimNames(dims) -> 1..5] :
        \A j \in 1..Len(dims) : scores[dims[j].name] \in Range(dims[j].possible_scores)}

\* One chatbot whose rubric_scores hold a legal score for every dimension of
\* the module's rubric.
InitTotal ==
    /\ module_state = "loaded"
    /\ module_rubric \in ValidRubrics
    /\ pc = "idle"
    /\ num_participants = 0
    /\ i = 0
    /\ participant = << >>
    /\ \E scores \in FullScores(module_rubric) :
         chatbots_pool = <<[Chatbot(Uuid4(0), TOPICS[1]) EXCEPT !.rubric_scores = scores]>>
    /\ data_records = << >>
    /\ result = NoCall
    /\ topics_selected = {}
    /\ uuids_issued = Len(chatbots_pool)
    /\ clock = 0
    /\ df = << >>
    /\ outputs = {}
    /\ calls = << >>

\* calculate_total_weighted_score(chatbot, MORAL_GRAPH_RUBRIC_DIMENSIONS)
CalculateTotalOfModuleRubric ==
    /\ module_state = "loaded"
    /\ pc = "idle"
    /\ result.op = ""
    /\ LET total == CalculateTotalWeightedScore(chatbots_pool[1].rubric_scores, module_rubric)
       IN  result' = Outcome("calculate_total_weighted_score",
                             [chatbot |-> 1, rubric_dimensions |-> module_rubric,
                              before |-> chatbots_pool[1].rubric_scores],
                             total.error, total.value)
    /\ UNCHANGED <<module_state, module_rubric, pc, num_participants, i, participant,
                   chatbots_pool, data_records, topics_selected>>
    /\ UNCHANGED <<process_vars, caller_vars>>

NextTotal == CalculateTotalOfModuleRubric

SpecTotal == InitTotal /\ [][NextTotal]_vars

\* ------------------------------------------ callers of RubricDimension(...)

\* moral_graph/core.py, RubricDimension.__post_init__: "" when the dimension
\* is accepted (the class checks neither the name nor the description).
CoreRubricDimensionPostInit(dim) ==
    IF ~(0 <= dim.weight /\ dim.weight <= 100) THEN "ValueError"
    ELSE IF dim.possible_scores = << >> THEN "ValueError"
    ELSE IF ~(\A k \in 1..Len(dim.possible_scores) :
                1 <= dim.possible_scores[k] /\ dim.possible_scores[k] <= 5)
         THEN "ValueError"
    ELSE ""

\* sorted(self.possible_scores)
Sorted(scores) == SortSeq(scores, LAMBDA a, b : a < b)

\* moral_graph/core.py, RubricDimension(...) once accepted: the scores are
\* kept in ascending order.
CoreRubricDimension(dim) == [dim EXCEPT !.possible_scores = Sorted(@)]

\* The arguments callers construct a RubricDimension from
\* (tests/test_core.py hands "", weight 0 and the scores [0, 6]).
DimensionNames == {"", "Test"}

DimensionDescriptions == {"", "desc"}

DimensionWeights == {-1, 0, 1, 10, 100, 101}

ScoreLists == {<< >>, <<1, 2, 3>>, <<0, 6>>, FullScale, <<5, 3, 1>>, <<3, 6>>}

DimensionArguments ==
    {Dim(n, d, w, ps) : n \in DimensionNames, d \in DimensionDescriptions,
                        w \in DimensionWeights, ps \in ScoreLists}

\* A caller constructs psych_experiment_simulator.RubricDimension(...).
NewRubricDimension ==
    /\ module_state = "loaded"
    /\ \E dim \in DimensionArguments :
        LET error == RubricDimensionPostInit(dim)
        IN  result' = Outcome("RubricDimension",
                              [class |-> "psych_experiment_simulator", dimension |-> dim],
                              error, IF error = "" THEN <<dim>> ELSE << >>)
    /\ UNCHANGED <<module_state, module_rubric, pc, num_participants, i, participant,
                   chatbots_pool, data_records, topics_selected>>
    /\ UNCHANGED <<process_vars, caller_vars>>

\* A caller constructs moral_graph.core.RubricDimension(...).
NewCoreRubricDimension ==
    /\ module_state = "loaded"
    /\ \E dim \in DimensionArguments :
        LET error == CoreRubricDimensionPostInit(dim)
        IN  result' = Outcome("RubricDimension",
                              [class |-> "moral_graph.core", dimension |-> dim],
                              error,
                              IF error = "" THEN <<CoreRubricDimension(dim)>> ELSE << >>)
    /\ UNCHANGED <<module_state, module_rubric, pc, num_participants, i, participant,
                   chatbots_pool, data_records, topics_selected>>
    /\ UNCHANGED <<process_vars, caller_vars>>

NextRubric ==
    \/ NewRubricDimension
    \/ NewCoreRubricDimension

SpecRubric == InitLoaded /\ [][NextRubric]_vars

\* ------------------------------------------- runs under a seeded generator

\* What the random module may draw for one participant of simulate_experiment:
\* the two samples, the two choices and the random.choices of the two scorings.
ParticipantDraws(dims) ==
    UNION {
      UNION {
        {[strengths |-> strengths, weaknesses |-> weaknesses, st |-> st, wt |-> wt,
          draws |-> <<d1, d2>>] :
            st \in ChoiceOf(strengths), wt \in ChoiceOf(weaknesses),
            d1 \in ScoreDraws(dims), d2 \in ScoreDraws(dims)} :
        weaknesses \in Sample(RemainingTopics(strengths) \cap SampledTopics)} :
      strengths \in Sample(SampledTopics)}

\* The draws the generator makes over a run of n participants: random.seed
\* fixes the whole sequence.
SeededDraws(n, dims) == [1..n -> ParticipantDraws(dims)]

\* The loop of simulate_experiment from participant k on, under the draws of
\* the tape and the clock readings stamps (two per participant).
RECURSIVE SimulateLoop(_, _, _, _, _, _, _, _, _)
SimulateLoop(k, n, pool, records, dims, tape, stamps, issued, now) ==
    IF k > n
    THEN [records |-> records, error |-> "", issued |-> issued, clock |-> now]
    ELSE CHOOSE rest \in
            {IF one.error # ""
             THEN [records |-> one.records, error |-> one.error, issued |-> one.issued,
                   clock |-> one.clock]
             ELSE SimulateLoop(k + 1, n, one.pool, one.records, dims, tape, stamps,
                               one.issued, one.clock) :
                one \in {SimulateOne(k, pool, records, dims, tape[k].strengths,
                                     tape[k].weaknesses, tape[k].st, tape[k].wt,
                                     tape[k].draws, SubSeq(stamps, 2 * k - 1, 2 * k),
                                     issued, now)}} : TRUE

\* simulate_experiment(n) as one call: the table returned (<< >> when the
\* call raised), the error and what the call left of the process.
SimulateExperimentCall(n, dims, tape, stamps, issued, now) ==
    IF InvalidCount(n)
    THEN [table |-> << >>, error |-> "ValueError", issued |-> issued, clock |-> now]
    ELSE CHOOSE returned \in
            {IF run.error # ""
             THEN [table |-> << >>, error |-> run.error, issued |-> run.issued,
                   clock |-> run.clock]
             ELSE [table |-> DataFrame(run.records), error |-> "", issued |-> run.issued,
                   clock |-> run.clock] :
                run \in {SimulateLoop(1, n, << >>, << >>, dims, tape, stamps, issued,
                                      now)}} : TRUE

\* The counts of the seeded runs.
SeededCounts == {1, 2}

\* A caller runs "random.seed(s); simulate_experiment(n)"; the seed fixes the
\* draws of the run. A caller who has run before uses the same seed and the
\* same count again.
SeededRun ==
    /\ module_state = "loaded"
    /\ pc = "idle"
    /\ Len(calls) < 2
    /\ \E n \in (IF calls = << >> THEN SeededCounts
                 ELSE {calls[1].args.num_participants}) :
       \E tape \in (IF calls = << >> THEN SeededDraws(n, module_rubric)
                    ELSE {calls[1].args.draws}) :
       \E stamps \in Readings(clock, 2 * n) :
       \E run \in {SimulateExperimentCall(n, module_rubric, tape, stamps,
                                          uuids_issued, clock)} :
       \E call \in {Outcome("simulate_experiment",
                             [num_participants |-> n, draws |-> tape],
                             run.error, run.table)} :
        /\ calls' = Append(calls, call)
        /\ result' = call
        /\ uuids_issued' = run.issued
        /\ clock' = run.clock
    /\ UNCHANGED <<module_state, module_rubric, pc, num_participants, i, participant,
                   chatbots_pool, data_records, topics_selected>>
    /\ UNCHANGED <<df, outputs>>

NextSeeded == SeededRun

SpecSeeded == InitLoaded /\ [][NextSeeded]_vars

\* --------------------------------------- reports over the result table
\* moral_graph/visualization.py. A statistic that is a quotient is the pair
\* <<numerator, denominator>> in lowest terms; NaN is the string "NaN".

\* data[name]: the cells of a column, in the order of the rows. The score
\* columns are the entries of the record's **scores.
Column(data, name) ==
    [k \in 1..Len(data) |->
        IF name \in DOMAIN data[k].scores THEN data[k].scores[name] ELSE data[k][name]]

\* The columns of the table: the keys of the records it was built from, the
\* keys of **scores among them.
Columns(data) ==
    IF data = << >> THEN {}
    ELSE (DOMAIN data[1] \ {"scores"}) \cup DOMAIN data[1].scores

RECURSIVE Gcd(_, _)
Gcd(a, b) == IF b = 0 THEN a ELSE Gcd(b, a % b)

Abs(a) == IF a < 0 THEN -a ELSE a

\* The quotient num / den, den > 0, in lowest terms.
Ratio(num, den) ==
    LET g == Gcd(Abs(num), den)
    IN  <<num \div g, den \div g>>

\* The sum of the k-th powers of the cells lo..hi, added up by halves.
RECURSIVE PowerSumOver(_, _, _, _)
PowerSumOver(column, power, lo, hi) ==
    IF lo > hi THEN 0
    ELSE IF lo = hi THEN column[lo] ^ power
    ELSE LET mid == (lo + hi) \div 2
         IN  PowerSumOver(column, power, lo, mid) + PowerSumOver(column, power, mid + 1, hi)

\* The sum of the k-th powers of the cells.
PowerSum(column, power) == PowerSumOver(column, power, 1, Len(column))

\* Series.mean()
Mean(column) ==
    IF column = << >> THEN "NaN" ELSE Ratio(PowerSum(column, 1), Len(column))

\* The sum of the k-th powers of n * (cell - mean), an integer.
CentralSum(column, power) ==
    PowerSum([j \in 1..Len(column) |-> Len(column) * column[j] - PowerSum(column, 1)],
             power)

\* Series.std(): the sample deviation, given by its square.
Std(column) ==
    IF Len(column) < 2 THEN "NaN"
    ELSE Ratio(CentralSum(column, 2), Len(column) * Len(column) * (Len(column) - 1))

\* Series.skew() and Series.kurtosis(): NaN under 3 and 4 cells, otherwise
\* given by the count and the central sums they are computed from.
Skew(column) ==
    IF Len(column) < 3 THEN "NaN"
    ELSE <<Len(column), CentralSum(column, 2), CentralSum(column, 3)>>

Kurtosis(column) ==
    IF Len(column) < 4 THEN "NaN"
    ELSE <<Len(column), CentralSum(column, 2), CentralSum(column, 4)>>

\* np.percentile(column, q) and Series.quantile(q / 100): linear interpolation
\* between the two cells around position q / 100 * (n - 1) of the sorted column.
Percentile(column, q) ==
    LET sorted == Sorted(column)
        pos    == q * (Len(column) - 1)
        lo     == (pos \div 100) + 1
        hi     == IF pos % 100 = 0 THEN lo ELSE lo + 1
    IN  Ratio(sorted[lo] * 100 + (pos % 100) * (sorted[hi] - sorted[lo]), 100)

\* Series.describe()
Describe(column) ==
    [count |-> Len(column), mean |-> Mean(column), std |-> Std(column),
     min |-> Percentile(column, 0), q25 |-> Percentile(column, 25),
     q50 |-> Percentile(column, 50), q75 |-> Percentile(column, 75),
     max |-> Percentile(column, 100)]

\* data.groupby('Specialization')['TotalWeightedScore'].agg(['mean', 'std', 'count'])
ScoresByTopic(data) ==
    [topic \in Range(Column(data, "Specialization")) |->
        LET column == Column(SelectSeq(data, LAMBDA row : row.Specialization = topic),
                             "TotalWeightedScore")
        IN  [mean |-> Mean(column), std |-> Std(column), count |-> Len(column)]]

\* The summary dict of generate_summary_report.
Summary(data, dims) ==
    [OverallStatistics |-> Describe(Column(data, "TotalWeightedScore")),
     AverageScoresByTopic |-> ScoresByTopic(data),
     DimensionStatistics |->
        [name \in DimNames(dims) |->
            [mean |-> Mean(Column(data, name)), std |-> Std(Column(data, name)),
             median |-> Percentile(Column(data, name), 50),
             skew |-> Skew(Column(data, name)),
             kurtosis |-> Kurtosis(Column(data, name))]],
     ScorePercentiles |->
        [q \in {10, 25, 50, 75, 90} |-> Percentile(Column(data, "TotalWeightedScore"), q)]]

\* The bug "data.drop(data.index[0], inplace=True)" once the summary is made.
MutantGenerateSummaryReport(data, dims) ==
    [summary |-> Summary(data, dims), data |-> Tail(data),
     file |-> "summary_report.txt", error |-> ""]

\* generate_summary_report(data): the summary returned, the table afterwards
\* and the file written. A column the table lacks ends the call in KeyError.
GenerateSummaryReport(data, dims) ==
    IF ~(DimNames(dims) \cup {"TotalWeightedScore", "Specialization"} \subseteq Columns(data))
    THEN [summary |-> << >>, data |-> data, file |-> "", error |-> "KeyError"]
    ELSE [summary |-> Summary(data, dims), data |-> data,
          file |-> "summary_report.txt", error |-> ""]

\* pd.to_datetime of a cell: the text of a reading becomes the reading as a
\* datetime64; a cell that is one already stays.
ToDatetime(cell) == IF cell[1] = "str" THEN <<"datetime64", cell[2]>> ELSE cell

\* data['Timestamp'] = pd.to_datetime(data['Timestamp']): the assignment
\* writes the column of the caller's table.
SetTimestamp(data) ==
    [k \in 1..Len(data) |-> [data[k] EXCEPT !.Timestamp = ToDatetime(@)]]

\* plot_time_series(data): the table afterwards and the file written.
PlotTimeSeries(data) ==
    IF "Timestamp" \notin Columns(data)
    THEN [data |-> data, file |-> "", error |-> ""]
    ELSE IF "TotalWeightedScore" \notin Columns(data)
    THEN [data |-> SetTimestamp(data), file |-> "", error |-> "KeyError"]
    ELSE [data |-> SetTimestamp(data), file |-> "time_series.png", error |-> ""]

\* plot_dimension_distributions, plot_topic_performance and
\* plot_correlation_matrix: the columns each reads and the file it writes.
Plots ==
    {[op |-> "plot_dimension_distributions",
      reads |-> DimNames(MORAL_GRAPH_RUBRIC_DIMENSIONS),
      file |-> "dimension_distributions.png"],
     [op |-> "plot_topic_performance",
      reads |-> {"Specialization", "TotalWeightedScore"},
      file |-> "topic_performance.png"],
     [op |-> "plot_correlation_matrix",
      reads |-> DimNames(MORAL_GRAPH_RUBRIC_DIMENSIONS),
      file |-> "correlation_matrix.png"]}

\* One of these plots of the table: the table afterwards and the file written.
Plot(plot, data) ==
    IF ~(plot.reads \subseteq Columns(data))
    THEN [data |-> data, file |-> "", error |-> "KeyError"]
    ELSE [data |-> data, file |-> plot.file, error |-> ""]

\* The files of the output directory once a call has written (or not) its file.
Written(files, file) == IF file = "" THEN files ELSE files \cup {file}

\* The counts of the runs whose table is reported on.
ReportCounts == {1}

\* A caller runs "df = simulate_experiment(n)" and holds the table.
RunExperiment ==
    /\ module_state = "loaded"
    /\ pc = "idle"
    /\ df = << >>
    /\ \E n \in ReportCounts :
       \E tape \in SeededDraws(n, module_rubric), stamps \in Readings(clock, 2 * n) :
       \E run \in {SimulateExperimentCall(n, module_rubric, tape, stamps,
                                          uuids_issued, clock)} :
        /\ run.error = ""
        /\ result' = Outcome("simulate_experiment",
                             [num_participants |-> n, draws |-> tape],
                             run.error, run.table)
        /\ df' = <<run.table>>
        /\ uuids_issued' = run.issued
        /\ clock' = run.clock
    /\ UNCHANGED <<module_state, module_rubric, pc, num_participants, i, participant,
                   chatbots_pool, data_records, topics_selected>>
    /\ UNCHANGED <<outputs, calls>>

\* The caller runs plot_dimension_distributions(df), plot_topic_performance(df)
\* or plot_correlation_matrix(df).
PlotTable ==
    /\ df # << >>
    /\ \E plot \in Plots :
       \E done \in {Plot(plot, df[1])} :
        /\ df' = <<done.data>>
        /\ outputs' = Written(outputs, done.file)
    /\ UNCHANGED <<module_state, module_rubric, pc, num_participants, i, participant,
                   chatbots_pool, data_records, result, topics_selected>>
    /\ UNCHANGED <<process_vars, calls>>

\* The caller runs plot_time_series(df).
PlotTimeSeriesOfTable ==
    /\ df # << >>
    /\ \E done \in {PlotTimeSeries(df[1])} :
        /\ df' = <<done.data>>
        /\ outputs' = Written(outputs, done.file)
    /\ UNCHANGED <<module_state, module_rubric, pc, num_participants, i, participant,
                   chatbots_pool, data_records, result, topics_selected>>
    /\ UNCHANGED <<process_vars, calls>>

\* The caller runs generate_summary_report(df), twice at most.
ReportTable ==
    /\ df # << >>
    /\ Len(calls) < 2
    /\ \E done \in {GenerateSummaryReport(df[1], MORAL_GRAPH_RUBRIC_DIMENSIONS)} :
        /\ calls' = Append(calls, Outcome("generate_summary_report", [data |-> df[1]],
                                          done.error,
                                          [summary |-> done.summary, data |-> done.data]))
        /\ df' = <<done.data>>
        /\ outputs' = Written(outputs, done.file)
    /\ UNCHANGED <<module_state, module_rubric, pc, num_participants, i, participant,
                   chatbots_pool, data_records, result, topics_selected>>
    /\ UNCHANGED process_vars

\* ------------------------------------------- the report of main.py
\* main.py reports on the table of its own simulate_experiment, whose columns
\* are participant_id, specialization, timestamp, the dimensions and
\* weighted_score.

\* Config.DIMENSION_WEIGHTS, in percent.
DIMENSION_WEIGHTS ==
    [Accuracy |-> 25, Clarity |-> 20, Depth |-> 20, Ethics |-> 20, Engagement |-> 15]

\* DataFrame.round(3) of a cell: the count stays, NaN stays, and a float
\* becomes the float of three decimals nearest to it, kept as the rounding
\* of the quotient it is given by.
Round3(cell) ==
    IF cell = "NaN" THEN "NaN" ELSE <<"round", 3, cell>>

\* data.groupby('specialization')['weighted_score'].agg(['mean', 'std',
\* 'count']).round(3).to_dict('index')
TopicPerformance(data) ==
    [topic \in Range(Column(data, "specialization")) |->
        LET column == Column(SelectSeq(data, LAMBDA row : row.specialization = topic),
                             "weighted_score")
        IN  [mean |-> Round3(Mean(column)), std |-> Round3(Std(column)),
             count |-> Len(column)]]

\* The summary dict of main.py's generate_summary_report.
MainSummary(data) ==
    [total_participants |-> Cardinality(Range(Column(data, "participant_id"))),
     total_interactions |-> Len(data),
     avg_interactions_per_participant |->
         Ratio(Len(data), Cardinality(Range(Column(data, "participant_id")))),
     dimension_means |->
         [dim \in DOMAIN DIMENSION_WEIGHTS |-> Mean(Column(data, dim))],
     topic_performance |-> TopicPerformance(data),
     overall_mean_score |-> Mean(Column(data, "weighted_score")),
     overall_std_score |-> Std(Column(data, "weighted_score"))]

\* main.py's generate_summary_report(data): the summary returned, the table
\* afterwards and the file written. A column the table lacks (KeyError) or a
\* table without rows (ZeroDivisionError) ends the call in RuntimeError.
MainGenerateSummaryReport(data) ==
    IF ~(DOMAIN DIMENSION_WEIGHTS \cup {"participant_id", "specialization", "weighted_score"}
            \subseteq Columns(data))
    THEN [summary |-> << >>, data |-> data, file |-> "", error |-> "RuntimeError"]
    ELSE [summary |-> MainSummary(data), data |-> data,
          file |-> "summary_report.json", error |-> ""]

\* The rows the tables of main.py's simulate_experiment are made of here.
MainRows ==
    {[participant_id |-> 0, specialization |-> "Psychology", timestamp |-> Isoformat(0),
      scores |-> [dim \in DOMAIN DIMENSION_WEIGHTS |-> 380], weighted_score |-> 380],
     [participant_id |-> 0, specialization |-> "Medicine", timestamp |-> Isoformat(0),
      scores |-> [dim \in DOMAIN DIMENSION_WEIGHTS |-> 100], weighted_score |-> 100],
     [participant_id |-> 1, specialization |-> "Psychology", timestamp |-> Isoformat(1),
      scores |-> [dim \in DOMAIN DIMENSION_WEIGHTS |-> 500], weighted_score |-> 500]}

\* The tables a caller of main.py reports on, of one to three rows.
MainTables ==
    UNION {[1..rows -> MainRows] : rows \in {1, 2, 3}}

\* A caller of main.py holds the table its simulate_experiment returned.
RunMainExperiment ==
    /\ module_state = "loaded"
    /\ pc = "idle"
    /\ df = << >>
    /\ \E table \in MainTables :
        /\ result' = Outcome("main.simulate_experiment", << >>, "", table)
        /\ df' = <<table>>
    /\ UNCHANGED <<module_state, module_rubric, pc, num_participants, i, participant,
                   chatbots_pool, data_records, topics_selected>>
    /\ UNCHANGED <<process_vars, outputs, calls>>

\* The caller runs main.py's generate_summary_report(df), twice at most.
ReportMainTable ==
    /\ df # << >>
    /\ Len(calls) < 2
    /\ \E done \in {MainGenerateSummaryReport(df[1])} :
        /\ calls' = Append(calls, Outcome("main.generate_summary_report",
                                          [data |-> df[1]], done.error,
                                          [summary |-> done.summary, data |-> done.data]))
        /\ df' = <<done.data>>
        /\ outputs' = Written(outputs, done.file)
    /\ UNCHANGED <<module_state, module_rubric, pc, num_participants, i, participant,
                   chatbots_pool, data_records, result, topics_selected>>
    /\ UNCHANGED process_vars

NextReport ==
    \/ RunExperiment
    \/ RunMainExperiment
    \/ PlotTable
    \/ PlotTimeSeriesOfTable
    \/ ReportTable
    \/ ReportMainTable

SpecReport == InitLoaded /\ [][NextReport]_vars

\* ------------------------------------------------ the dense simulation
\* moral_graph/simulator.py, the simulation behind POST /api/simulate.
\* Scores and totals are in hundredths, weights in percent.

SPECIALIZATIONS ==
    <<"Psychology", "Sociology", "Natural Sciences", "Mathematics",
      "Computer Science", "Humanities", "Economics", "Medicine">>

INTERACTION_TYPES ==
    <<"Question-Answer", "Discussion", "Problem-Solving",
      "Analysis", "Explanation", "Debate">>

SCORE_WEIGHTS ==
    [Accuracy |-> 25, Clarity |-> 20, Depth |-> 20, Ethics |-> 15, Engagement |-> 20]

MIN_INTERACTIONS == 5

MAX_INTERACTIONS == 12

POSSIBLE_SCORES == <<100, 150, 200, 250, 300, 350, 400, 450, 500>>

\* max(1.0, min(5.0, score))
Clamp(score) == IF score < 100 THEN 100 ELSE IF score > 500 THEN 500 ELSE score

\* The bug of a score that is clamped and never snapped to the scale.
MutantSnap(score) == score

\* min(POSSIBLE_SCORES, key=lambda x: abs(x - score)): the scan keeps the
\* entry it holds unless the next one is strictly nearer, so the first of the
\* nearest entries is returned.
Snap(score) ==
    LET held[k \in 1..Len(POSSIBLE_SCORES)] ==
            IF k = 1 THEN POSSIBLE_SCORES[1]
            ELSE LET so_far == held[k - 1]
                 IN  IF Abs(POSSIBLE_SCORES[k] - score) < Abs(so_far - score)
                     THEN POSSIBLE_SCORES[k] ELSE so_far
    IN  held[Len(POSSIBLE_SCORES)]

\* round(x, 2) of a float whose exact value is num / den hundredths: a value
\* halfway between two hundredths lands on either of them, as the binary
\* representation of the operands has it (ties is "down" or "up").
RoundFloat(num, den, ties) ==
    LET q == num \div den
        r == num % den
    IN  IF 2 * r > den \/ (2 * r = den /\ ties = "up") THEN q + 1 ELSE q

\* sum(scores[dim] * SCORE_WEIGHTS[dim] for dim in SCORE_WEIGHTS.keys()), in
\* ten-thousandths.
RECURSIVE WeightedScoreSum(_, _)
WeightedScoreSum(scores, names) ==
    IF names = {} THEN 0
    ELSE LET name == CHOOSE d \in names : TRUE
         IN  scores[name] * SCORE_WEIGHTS[name] + WeightedScoreSum(scores, names \ {name})

\* One pass of the loop of generate_participant_interactions under the draws
\* of the pass: the interaction dict and the specialization counts afterwards.
\* Both branches of the specialization draw range over all of SPECIALIZATIONS.
Interaction(participant_id, counts, draw, issued) ==
    LET specialization ==
            IF draw.favor /\ \E spec \in DOMAIN counts : counts[spec] > 0
            THEN draw.specialization   \* random.choices(SPECIALIZATIONS, weights)[0]
            ELSE draw.specialization   \* random.choice(SPECIALIZATIONS)
        base_score == Clamp(draw.base)
        scores == [dimension \in DOMAIN SCORE_WEIGHTS |->
                      Snap(Clamp(base_score + draw.noise[dimension]))]
    IN  [interaction |->
            [ParticipantID |-> participant_id,
             InteractionID |-> Uuid4(issued),
             Specialization |-> specialization,
             InteractionType |-> draw.interaction_type,
             scores |-> scores,
             TotalWeightedScore |->
                 RoundFloat(WeightedScoreSum(scores, DOMAIN SCORE_WEIGHTS), 100, draw.ties)],
         counts |-> [counts EXCEPT ![specialization] = @ + 1]]

\* specialization_counts at the start of pass k: the passes made so far, by
\* the specialization each of them drew.
CountsBefore(draws, k) ==
    [spec \in Range(SPECIALIZATIONS) |->
        Cardinality({j \in 1..(k - 1) : draws.passes[j].specialization = spec})]

\* The pass of the loop in which a call raises (MemoryError, or the source of
\* randomness behind uuid4 failing), ahead of the uuid of the pass; no pass
\* when draws.fault is 0.
Faulty(draws) == draws.fault \in 1..draws.num_interactions

\* The UUIDs one call of generate_participant_interactions draws.
Drawn(participant_id, draws) ==
    IF participant_id = << >> THEN 0
    ELSE IF Faulty(draws) THEN draws.fault - 1
    ELSE draws.num_interactions

\* generate_participant_interactions(participant_id) under the draws of the
\* call, with issued UUIDs drawn before it. An exception of a pass is logged
\* and raised again, and the interactions built so far go with the frame.
GenerateParticipantInteractions(participant_id, draws, issued) ==
    IF participant_id = << >>
    THEN [interactions |-> << >>, error |-> "ValueError", issued |-> issued]
    ELSE IF Faulty(draws)
    THEN [interactions |-> << >>, error |-> "Exception",
          issued |-> issued + Drawn(participant_id, draws)]
    ELSE [interactions |->
              [k \in 1..draws.num_interactions |->
                  Interaction(participant_id, CountsBefore(draws, k), draws.passes[k],
                              issued + k - 1).interaction],
          error |-> "",
          issued |-> issued + draws.num_interactions]

\* The sequences lo..hi of a sequence of sequences, joined by halves.
RECURSIVE Extend(_, _, _)
Extend(lists, lo, hi) ==
    IF lo > hi THEN << >>
    ELSE IF lo = hi THEN lists[lo]
    ELSE LET mid == (lo + hi) \div 2
         IN  Extend(lists, lo, mid) \o Extend(lists, mid + 1, hi)

\* The bug of a loop that stops at the first participant whose generation
\* raised: the participants after it are never generated.
MutantAllInteractions(participant_ids, tape, issued) ==
    LET failed == {k \in 1..Len(participant_ids) : Faulty(tape[k])}
        last == IF failed = {} THEN Len(participant_ids)
                ELSE (CHOOSE k \in failed : \A other \in failed : k <= other) - 1
        drawn == [k \in 1..last |-> Drawn(participant_ids[k], tape[k])]
    IN  [rows |-> Extend([k \in 1..last |->
                             GenerateParticipantInteractions(
                                 participant_ids[k], tape[k],
                                 issued + PowerSumOver(drawn, 1, 1, k - 1)).interactions],
                         1, last),
         issued |-> issued + PowerSum(drawn, 1)]

\* The loop over participant_ids: all_interactions is extended by the
\* interactions of each participant in turn; a participant whose generation
\* raised is logged and skipped.
AllInteractions(participant_ids, tape, issued) ==
    LET drawn == [k \in 1..Len(participant_ids) |-> Drawn(participant_ids[k], tape[k])]
        one == [k \in 1..Len(participant_ids) |->
                   GenerateParticipantInteractions(
                       participant_ids[k], tape[k],
                       issued + PowerSumOver(drawn, 1, 1, k - 1))]
    IN  [rows |-> Extend([k \in 1..Len(participant_ids) |->
                             IF one[k].error = "" THEN one[k].interactions ELSE << >>],
                         1, Len(participant_ids)),
         issued |-> issued + PowerSum(drawn, 1)]

\* results_df.sort_values(['ParticipantID', 'Timestamp']): a stable sort; the
\* Timestamp is one value for all rows, and the order of the UUID strings is
\* the order of issue or its reverse (order).
SortValues(rows, order) ==
    IF order = "issued"
    THEN SortSeq(rows, LAMBDA a, b : a.ParticipantID[2] < b.ParticipantID[2])
    ELSE SortSeq(rows, LAMBDA a, b : a.ParticipantID[2] > b.ParticipantID[2])

\* The bug of a table that is never taken for empty.
MutantEmpty(rows) == FALSE

\* results_df.empty of pd.DataFrame(all_interactions)
Empty(rows) == rows = << >>

\* simulate_experiment(num_participants) of the dense variant, under the tape
\* of the draws (one entry per participant), the reading of the clock and the
\* order of the UUID strings.
DenseSimulateExperiment(n, tape, order, reading, issued) ==
    IF n < 1
    THEN [table |-> << >>, error |-> "ValueError", issued |-> issued]
    ELSE
      LET participant_ids == [k \in 1..n |-> Uuid4(issued + k - 1)]
          all == AllInteractions(participant_ids, tape, issued + n)
      IN  IF Empty(all.rows)
          THEN [table |-> << >>, error |-> "RuntimeError", issued |-> all.issued]
          ELSE [table |->
                    SortValues([k \in 1..Len(all.rows) |->
                                   [ParticipantID |-> all.rows[k].ParticipantID,
                                    InteractionID |-> all.rows[k].InteractionID,
                                    Specialization |-> all.rows[k].Specialization,
                                    InteractionType |-> all.rows[k].InteractionType,
                                    scores |-> all.rows[k].scores,
                                    TotalWeightedScore |-> all.rows[k].TotalWeightedScore,
                                    Timestamp |-> <<"Timestamp", reading>>,
                                    SimulationVersion |-> "1.0.0"]],
                               order),
                error |-> "",
                issued |-> all.issued]

\* ---------------------------------------------------- POST /api/simulate
\* app.py and config.py.

MIN_PARTICIPANTS == 10

MAX_PARTICIPANTS == 10000

\* The JSON values a request carries as participantCount: isinstance(v, int)
\* holds of the ints and of the bools.
IsInt(v) == v[1] \in {"int", "bool"}

\* The number a value that passed isinstance(v, int) compares as.
IntOf(v) == IF v[1] = "bool" THEN (IF v[2] THEN 1 ELSE 0) ELSE v[2]

\* data.get('participantCount', 100) of a JSON object, given as the function
\* of its fields.
GetParticipantCount(data) ==
    IF "participantCount" \in DOMAIN data THEN data["participantCount"] ELSE <<"int", 100>>

\* jsonify(body), status
Response(status, body) == [status |-> status, body |-> body]

\* The message of the range check.
BetweenMessage ==
    <<"Participant count must be between ", MIN_PARTICIPANTS, " and ", MAX_PARTICIPANTS>>

\* The bug of a range check that has lost its lower bound.
MutantInRange(n) == ~(n > MAX_PARTICIPANTS)

\* not (num_participants < Config.MIN_PARTICIPANTS
\*      or num_participants > Config.MAX_PARTICIPANTS)
InRange(n) == ~(n < MIN_PARTICIPANTS \/ n > MAX_PARTICIPANTS)

\* The draws of a run of n participants: the number of interactions is that
\* of every participant, and the passes alternate between two draws.
TapeOf(n, num_interactions, a, b) ==
    [k \in 1..n |->
        [num_interactions |-> num_interactions, fault |-> 0,
         passes |-> [j \in 1..num_interactions |-> IF (k + j) % 2 = 0 THEN a ELSE b]]]

\* round(float(results_df[column].mean()), 2)
RoundedMean(column, ties) == RoundFloat(PowerSum(column, 1), Len(column), ties)

\* run_simulation for a request, under the draws of the simulation: the
\* response, the count simulate_experiment was invoked with (<< >> when it was
\* not invoked) and what the call left of the process.
RunSimulation(request, draws, issued) ==
    LET rejected(status, message) ==
            [response |-> Response(status, [error |-> message]),
             invoked |-> << >>, issued |-> issued, table |-> << >>]
    IN
    IF ~request.is_json THEN rejected(400, "Request must be JSON")
    ELSE IF request.json[1] = "malformed"
    THEN rejected(500, "Internal server error")      \* get_json raises
    ELSE IF request.json[1] # "object" THEN rejected(400, "Invalid JSON format")
    ELSE
      LET value == GetParticipantCount(request.json[2])
      IN
      IF ~IsInt(value) THEN rejected(400, "Participant count must be an integer")
      ELSE IF ~InRange(IntOf(value)) THEN rejected(400, BetweenMessage)
      ELSE
        LET n   == IntOf(value)
            run == DenseSimulateExperiment(n,
                       TapeOf(n, draws.num_interactions, draws.a, draws.b),
                       draws.order, draws.reading, issued)
        IN  IF run.error = "ValueError"
            THEN [response |-> Response(400, [error |-> "Number of participants must be at least 1"]),
                  invoked |-> <<n>>, issued |-> run.issued, table |-> << >>]
            ELSE IF run.error # ""
            THEN [response |-> Response(500, [error |-> "Internal server error"]),
                  invoked |-> <<n>>, issued |-> run.issued, table |-> << >>]
            ELSE [response |->
                     Response(200,
                         [totalParticipants |-> n,
                          averageScore |->
                              RoundedMean(Column(run.table, "TotalWeightedScore"), draws.ties),
                          completionRate |-> 100,
                          dimensionScores |->
                              [dimension \in DOMAIN SCORE_WEIGHTS |->
                                  RoundedMean(Column(run.table, dimension), draws.ties)]]),
                  invoked |-> <<n>>, issued |-> run.issued, table |-> run.table]

\* The values of participantCount the requests carry.
ParticipantCounts ==
    {<<"int", -1>>, <<"int", 0>>, <<"int", 9>>, <<"int", 10>>, <<"int", 11>>,
     <<"int", 10001>>, <<"str", "invalid">>, <<"str", "10">>, <<"float", 50>>,
     <<"null">>, <<"bool", TRUE>>}

\* The requests: a body that is not announced as JSON, one that does not
\* parse, JSON that is no object, an object without the field and the objects
\* with it.
Requests ==
    {[is_json |-> FALSE, json |-> <<"object", << >>>>],
     [is_json |-> TRUE, json |-> <<"malformed">>],
     [is_json |-> TRUE, json |-> <<"array">>],
     [is_json |-> TRUE, json |-> <<"null">>],
     [is_json |-> TRUE, json |-> <<"object", << >>>>]}
    \cup {[is_json |-> TRUE, json |-> <<"object", [participantCount |-> v]>>] :
              v \in ParticipantCounts}

\* The draws of one pass that the simulations are run under: a base below the
\* scale, one whose noise puts a score halfway between two entries, and one
\* above the scale whose total is halfway between two hundredths.
PassDraws ==
    {[favor |-> TRUE, specialization |-> "Psychology", interaction_type |-> "Debate",
      base |-> -20, ties |-> "down",
      noise |-> [dimension \in DOMAIN SCORE_WEIGHTS |-> -50]],
     [favor |-> FALSE, specialization |-> "Medicine", interaction_type |-> "Analysis",
      base |-> 350, ties |-> "up",
      noise |-> [Accuracy |-> -75, Clarity |-> 0, Depth |-> 40, Ethics |-> 0,
                 Engagement |-> 0]],
     [favor |-> TRUE, specialization |-> "Medicine", interaction_type |-> "Discussion",
      base |-> 730, ties |-> "up",
      noise |-> [Accuracy |-> 0, Clarity |-> 0, Depth |-> 0, Ethics |-> -50,
                 Engagement |-> 0]]}

\* The draws of the simulation behind one request.
SimulationDraws ==
    {[num_interactions |-> num_interactions, a |-> a, b |-> b,
      order |-> order, reading |-> reading, ties |-> ties] :
        num_interactions \in {MIN_INTERACTIONS, MAX_INTERACTIONS},
        a \in PassDraws, b \in PassDraws,
        order \in {"issued", "reversed"}, reading \in ClockValues,
        ties \in {"down", "up"}}

\* A client posts to /api/simulate and run_simulation answers: the one
\* request of the run. calls holds the invocation of simulate_experiment the
\* handler made, if it made one, and result the request and its answer.
PostSimulate ==
    /\ module_state = "loaded"
    /\ pc = "idle"
    /\ result.op = ""
    /\ \E request \in Requests, draws \in SimulationDraws :
        /\ draws.reading >= clock
        /\ \E served \in {RunSimulation(request, draws, uuids_issued)} :
            /\ result' = Outcome("POST /api/simulate", request, "", served.response)
            /\ calls' = IF served.invoked = << >> THEN calls
                        ELSE Append(calls,
                                    Outcome("simulate_experiment",
                                            [num_participants |-> served.invoked[1]],
                                            "", served.table))
            /\ uuids_issued' = served.issued
            /\ clock' = IF served.table = << >> THEN clock ELSE draws.reading
    /\ UNCHANGED <<module_state, module_rubric, pc, num_participants, i, participant,
                   chatbots_pool, data_records, topics_selected, df, outputs>>

NextApi == PostSimulate

SpecApi == InitLoaded /\ [][NextApi]_vars

\* ------------------------------------------ callers of the dense simulation

MaxDenseParticipants == 2

\* The bug of random.randint taken for a half-open draw and widened by one.
MutantNumInteractions == MIN_INTERACTIONS..(MAX_INTERACTIONS + 1)

\* random.randint(MIN_INTERACTIONS, MAX_INTERACTIONS): both ends included.
NumInteractions == MIN_INTERACTIONS..MAX_INTERACTIONS

\* The draws of pass j of a call that starts its cycle through PassDraws at
\* start.
PassDrawAt(start, j) ==
    CHOOSE draw \in PassDraws : draw.base = <<-20, 350, 730>>[((start + j) % 3) + 1]

\* The draws of one call of generate_participant_interactions: a call that
\* runs to its end, or one that raises in its first or in its last pass.
GenerationDraws ==
    {[num_interactions |-> num_interactions, fault |-> 0,
      passes |-> [j \in 1..num_interactions |-> PassDrawAt(num_interactions, j)]] :
        num_interactions \in NumInteractions}
    \cup
    {[num_interactions |-> MIN_INTERACTIONS, fault |-> fault,
      passes |-> [j \in 1..MIN_INTERACTIONS |-> PassDrawAt(fault, j)]] :
        fault \in {1, MIN_INTERACTIONS}}

\* The tapes of a run of n participants.
Tapes(n) == IF n < 1 THEN {<< >>} ELSE [1..n -> GenerationDraws]

\* A caller invokes simulate_experiment(num_participants) of the dense
\* variant: the one call of the run. result holds the call, its draws and
\* what it raised or returned.
SimulateDense ==
    /\ module_state = "loaded"
    /\ pc = "idle"
    /\ result.op = ""
    /\ \E n \in -1..MaxDenseParticipants, order \in {"issued", "reversed"},
          reading \in ClockValues :
        /\ reading >= clock
        /\ \E tape \in Tapes(n) :
            \E run \in {DenseSimulateExperiment(n, tape, order, reading, uuids_issued)} :
                /\ result' = Outcome("simulate_experiment",
                                     [num_participants |-> n, tape |-> tape,
                                      issued |-> uuids_issued],
                                     run.error, run.table)
                /\ uuids_issued' = run.issued
                /\ clock' = IF run.error = "" THEN reading ELSE clock
    /\ UNCHANGED <<module_state, module_rubric, pc, num_participants, i, participant,
                   chatbots_pool, data_records, topics_selected, df, outputs, calls>>

\* np.clip(x, lo, hi)
Clip(x, lo, hi) == IF x < lo THEN lo ELSE IF x > hi THEN hi ELSE x

\* np.sum([scores[dim] * weight for dim, weight in DIMENSION_WEIGHTS.items()]),
\* in ten-thousandths.
RECURSIVE MainWeightedSum(_, _)
MainWeightedSum(scores, names) ==
    IF names = {} THEN 0
    ELSE LET name == CHOOSE d \in names : TRUE
         IN  scores[name] * DIMENSION_WEIGHTS[name] + MainWeightedSum(scores, names \ {name})

\* The bug of np.random.randint taken for a draw that includes its upper end.
MutantMainNumInteractions == 5..13

\* np.random.randint(5, 13): the upper end is left out.
MainNumInteractions == 5..(13 - 1)

\* The draws of one pass of the inner loop of main.py's simulate_experiment:
\* np.random.normal(3.8, 0.7) for each dimension, in hundredths, and
\* np.random.choice(SPECIALIZATIONS). The draws are multiples of 0.2, which
\* makes the weighted sum a whole number of hundredths.
MainPassDraws ==
    {[normal |-> [dim \in DOMAIN DIMENSION_WEIGHTS |-> -60], specialization |-> "Psychology"],
     [normal |-> [Accuracy |-> 400, Clarity |-> 380, Depth |-> 380, Ethics |-> 380,
                  Engagement |-> 380],
      specialization |-> "Medicine"],
     [normal |-> [dim \in DOMAIN DIMENSION_WEIGHTS |-> 720], specialization |-> "Economics"]}

\* The draws of pass j of a participant that starts its cycle through
\* MainPassDraws at start.
MainPassDrawAt(start, j) ==
    CHOOSE draw \in MainPassDraws :
        draw.normal.Accuracy = <<-60, 400, 720>>[((start + j) % 3) + 1]

\* The dict one pass appends to results.
MainRow(participant_id, draw, reading) ==
    LET scores == [dim \in DOMAIN DIMENSION_WEIGHTS |-> Clip(draw.normal[dim], 100, 500)]
    IN  [participant_id |-> participant_id,
         specialization |-> draw.specialization,
         timestamp |-> Isoformat(reading),
         scores |-> scores,
         weighted_score |-> MainWeightedSum(scores, DOMAIN DIMENSION_WEIGHTS) \div 100]

\* simulate_experiment(num_participants) of main.py under its draws: the
\* participants of an odd and of an even place draw draws.odd and draws.even
\* interactions, and the clock moves from now to later when the participant
\* of place draws.tick begins.
MainSimulateExperiment(n, draws, now, later) ==
    IF ~(MIN_PARTICIPANTS <= n /\ n <= MAX_PARTICIPANTS)
    THEN [table |-> << >>, error |-> "ValueError"]
    ELSE [table |->
              Extend([k \in 1..n |->
                         [j \in 1..(IF k % 2 = 1 THEN draws.odd ELSE draws.even) |->
                             MainRow(k - 1, MainPassDrawAt(k, j),
                                     IF k < draws.tick THEN now ELSE later)]],
                     1, n),
          error |-> ""]

\* The counts main.py's simulate_experiment is called with here: the lower
\* limit of the configuration and its two neighbours.
MainCounts == {MIN_PARTICIPANTS - 1, MIN_PARTICIPANTS, MIN_PARTICIPANTS + 1}

\* A caller invokes simulate_experiment(num_participants) of main.py: the
\* one call of the run.
SimulateMain ==
    /\ module_state = "loaded"
    /\ pc = "idle"
    /\ result.op = ""
    /\ \E n \in MainCounts, odd \in MainNumInteractions,
          even \in {5, 12} \cap MainNumInteractions :
        \E draws \in {[odd |-> odd, even |-> even, tick |-> tick] : tick \in {1, n + 1}} :
            \E run \in {MainSimulateExperiment(n, draws, clock, LastReading)} :
                /\ result' = Outcome("main.simulate_experiment",
                                     [num_participants |-> n, draws |-> draws],
                                     run.error, run.table)
                /\ clock' = IF run.error = "" /\ draws.tick <= n THEN LastReading ELSE clock
    /\ UNCHANGED <<module_state, module_rubric, pc, num_participants, i, participant,
                   chatbots_pool, data_records, topics_selected, uuids_issued, df, outputs,
                   calls>>

NextDense == SimulateDense \/ SimulateMain

SpecDense == InitLoaded /\ [][NextDense]_vars

\* ------------------------------------- callers of the interaction generator

\* random.gauss(3.5, 0.7), in hundredths: below and above the scale, its
\* ends, and values at and off the midpoints of its steps.
BaseDraws == {-20, 125, 350, 475, 730}

\* random.gauss(0, 0.5), in hundredths.
NoiseDraws == {-150, 0, 25, 160}

\* The draws of a call whose passes all draw the same values.
UniformDraws(num_interactions, base, noise, ties) ==
    [num_interactions |-> num_interactions, fault |-> 0,
     passes |-> [j \in 1..num_interactions |->
                    [favor |-> TRUE, specialization |-> "Psychology",
                     interaction_type |-> "Debate", base |-> base, ties |-> ties,
                     noise |-> noise]]]

\* A caller invokes generate_participant_interactions(participant_id), with
\* an id or with the empty string: the one call of the run. result holds the
\* call, its draws and what it raised or returned.
GenerateInteractions ==
    /\ module_state = "loaded"
    /\ pc = "idle"
    /\ result.op = ""
    /\ \E participant_id \in {<< >>, Uuid4(0)},
          num_interactions \in {MIN_INTERACTIONS, MAX_INTERACTIONS},
          base \in BaseDraws, noise \in [DOMAIN SCORE_WEIGHTS -> NoiseDraws],
          ties \in {"down", "up"} :
        \E draws \in {UniformDraws(num_interactions, base, noise, ties)} :
            \E made \in {GenerateParticipantInteractions(participant_id, draws,
                                                         uuids_issued + 1)} :
                /\ result' = Outcome("generate_participant_interactions",
                                     [participant_id |-> participant_id, draws |-> draws],
                                     made.error, made.interactions)
                /\ uuids_issued' = IF participant_id = << >> THEN uuids_issued
                                   ELSE made.issued
    /\ UNCHANGED <<module_state, module_rubric, pc, num_participants, i, participant,
                   chatbots_pool, data_records, topics_selected, clock, df, outputs, calls>>

NextInteraction == GenerateInteractions

SpecInteraction == InitLoaded /\ [][NextInteraction]_vars

\* ------------------------------------------------- moral_graph/core.py
\* Participant.assign_chatbot, Chatbot.set_score and Chatbot.get_total_score.
\* A Python value is the pair of its type and what it holds; a float holds
\* hundredths.

\* The values a caller passes to set_score as the score: ints on and off the
\* scale, a float equal to a point of the scale and one between two points,
\* True and a string.
ScoreArguments ==
    {<<"int", k>> : k \in 0..6}
        \cup {<<"float", 300>>, <<"float", 250>>, <<"bool", TRUE>>, <<"str", "3">>}

\* The number a value compares as under ==, in hundredths (a string equals
\* no number).
IsNumber(value) == value[1] \in {"int", "float", "bool"}

Hundredths(value) ==
    IF value[1] = "int" THEN 100 * value[2]
    ELSE IF value[1] = "float" THEN value[2]
    ELSE IF value[2] THEN 100 ELSE 0

\* The bug of a check of the range in place of the scale.
MutantInPossibleScores(score, possible_scores) ==
    IsNumber(score) /\ Hundredths(score) >= 100 /\ Hundredths(score) <= 500

\* score in dim.possible_scores: the list holds an element equal to score.
InPossibleScores(score, possible_scores) ==
    /\ IsNumber(score)
    /\ \E k \in 1..Len(possible_scores) : Hundredths(score) = 100 * possible_scores[k]

\* float(score)
Float(score) == <<"float", Hundredths(score)>>

\* Chatbot.set_score(dimension, score): rubric_scores afterwards and the
\* error.
SetScore(rubric_scores, dimension, score) ==
    LET dims == MORAL_GRAPH_RUBRIC_DIMENSIONS
    IN  IF dimension \notin DimNames(dims)
        THEN [rubric_scores |-> rubric_scores, error |-> "ValueError"]
        ELSE LET first == CHOOSE k \in 1..Len(dims) :
                              /\ dims[k].name = dimension
                              /\ \A j \in 1..(k - 1) : dims[j].name # dimension
             IN  IF ~InPossibleScores(score, dims[first].possible_scores)
                 THEN [rubric_scores |-> rubric_scores, error |-> "ValueError"]
                 ELSE [rubric_scores |-> SetItem(rubric_scores, dimension, Float(score)),
                       error |-> ""]

\* The loop of get_total_score, in units of 1/10000: a dimension without a
\* score adds nothing.
ScoredSum(rubric_scores, dims) ==
    LET partial[k \in 0..Len(dims)] ==
            IF k = 0 THEN 0
            ELSE partial[k - 1]
                    + (IF dims[k].name \in DOMAIN rubric_scores
                       THEN rubric_scores[dims[k].name][2] * dims[k].weight
                       ELSE 0)
    IN  partial[Len(dims)]

\* The bug "total += self.rubric_scores[dim.name] * dim.weight": the weight
\* is taken for a fraction.
MutantGetTotalScore(rubric_scores) ==
    IF DOMAIN rubric_scores = {} THEN 0
    ELSE Round2(ScoredSum(rubric_scores, MORAL_GRAPH_RUBRIC_DIMENSIONS) * 100)

\* Chatbot.get_total_score(): the total in hundredths.
GetTotalScore(rubric_scores) ==
    IF DOMAIN rubric_scores = {} THEN 0
    ELSE Round2(ScoredSum(rubric_scores, MORAL_GRAPH_RUBRIC_DIMENSIONS))

\* The bug of an assignment that replaces the chatbot of a topic.
MutantAssignChatbot(assigned_chatbots, topic, chatbot) ==
    IF topic \notin Range(TOPICS)
    THEN [assigned_chatbots |-> assigned_chatbots, error |-> "ValueError"]
    ELSE [assigned_chatbots |-> SetItem(assigned_chatbots, topic, chatbot), error |-> ""]

\* Participant.assign_chatbot(topic, chatbot): assigned_chatbots afterwards
\* and the error.
AssignChatbot(assigned_chatbots, topic, chatbot) ==
    IF topic \notin Range(TOPICS)
    THEN [assigned_chatbots |-> assigned_chatbots, error |-> "ValueError"]
    ELSE IF topic \in DOMAIN assigned_chatbots
    THEN [assigned_chatbots |-> assigned_chatbots, error |-> "ValueError"]
    ELSE [assigned_chatbots |-> SetItem(assigned_chatbots, topic, chatbot), error |-> ""]

\* The dimensions a caller passes to set_score: the first and the last of the
\* rubric and a name it does not hold.
DimensionNameArguments ==
    {MORAL_GRAPH_RUBRIC_DIMENSIONS[1].name,
     MORAL_GRAPH_RUBRIC_DIMENSIONS[Len(MORAL_GRAPH_RUBRIC_DIMENSIONS)].name,
     "Humour"}

\* The topics a caller passes to assign_chatbot: two of the enumeration and
\* one outside it.
TopicArguments == {TOPICS[1], TOPICS[2], "Astrology"}

\* Two chatbots and a participant as their constructors leave them: no
\* scores, no assignments, ids drawn by uuid4.
InitCore ==
    /\ module_state = "loaded"
    /\ module_rubric = MORAL_GRAPH_RUBRIC_DIMENSIONS
    /\ pc = "idle"
    /\ num_participants = 0
    /\ i = 0
    /\ participant = <<Participant(Uuid4(2), {TOPICS[1]}, {TOPICS[2]})>>
    /\ chatbots_pool = <<Chatbot(Uuid4(0), TOPICS[1]), Chatbot(Uuid4(1), TOPICS[2])>>
    /\ data_records = << >>
    /\ result = NoCall
    /\ topics_selected = {}
    /\ uuids_issued = Len(chatbots_pool) + Len(participant)
    /\ clock = 0
    /\ df = << >>
    /\ outputs = {}
    /\ calls = << >>

\* A caller runs chatbot.set_score(dimension, score) on the first chatbot.
CoreSetScore ==
    /\ module_state = "loaded"
    /\ \E dimension \in DimensionNameArguments, score \in ScoreArguments :
        \E set \in {SetScore(chatbots_pool[1].rubric_scores, dimension, score)} :
            /\ chatbots_pool' = [chatbots_pool EXCEPT ![1].rubric_scores = set.rubric_scores]
            /\ result' = Outcome("set_score", [dimension |-> dimension, score |-> score],
                                 set.error, << >>)
    /\ UNCHANGED <<module_state, module_rubric, pc, num_participants, i, participant,
                   data_records, topics_selected>>
    /\ UNCHANGED <<process_vars, caller_vars>>

\* A caller runs participant.assign_chatbot(topic, chatbot) with a chatbot
\* of the pool.
CoreAssignChatbot ==
    /\ module_state = "loaded"
    /\ \E topic \in TopicArguments, chatbot \in 1..Len(chatbots_pool) :
        \E assigned \in {AssignChatbot(participant[1].assigned_chatbots, topic, chatbot)} :
            /\ participant' =
                   <<[participant[1] EXCEPT !.assigned_chatbots = assigned.assigned_chatbots]>>
            /\ result' = Outcome("assign_chatbot", [topic |-> topic, chatbot |-> chatbot],
                                 assigned.error, << >>)
    /\ UNCHANGED <<module_state, module_rubric, pc, num_participants, i, chatbots_pool,
                   data_records, topics_selected>>
    /\ UNCHANGED <<process_vars, caller_vars>>

\* A caller runs chatbot.get_total_score() on the first chatbot.
CoreGetTotalScore ==
    /\ module_state = "loaded"
    /\ result' = Outcome("get_total_score",
                         [rubric_scores |-> chatbots_pool[1].rubric_scores],
                         "", GetTotalScore(chatbots_pool[1].rubric_scores))
    /\ UNCHANGED <<module_state, module_rubric, pc, num_participants, i, participant,
                   chatbots_pool, data_records, topics_selected>>
    /\ UNCHANGED <<process_vars, caller_vars>>

NextCore ==
    \/ CoreSetScore
    \/ CoreAssignChatbot
    \/ CoreGetTotalScore

SpecCore == InitCore /\ [][NextCore]_vars

\* ------------------------------------------ callers of get_total_score

\* The rubric_scores set_score can have left: every dict of legal scores over
\* all the dimensions, and dicts of one score over none, one, or all but the
\* last of them.
CoreScores ==
    LET dims == MORAL_GRAPH_RUBRIC_DIMENSIONS
        some == {{}, {dims[1].name}, DimNames(dims) \ {dims[Len(dims)].name}}
    IN  {[d \in DOMAIN scores |-> Float(<<"int", scores[d]>>)] : scores \in FullScores(dims)}
            \cup {[d \in names |-> Float(<<"int", score>>)] :
                      names \in some, score \in Range(FullScale)}

\* One chatbot whose rubric_scores set_score has filled.
InitCoreTotal ==
    /\ module_state = "loaded"
    /\ module_rubric = MORAL_GRAPH_RUBRIC_DIMENSIONS
    /\ pc = "idle"
    /\ num_participants = 0
    /\ i = 0
    /\ participant = << >>
    /\ \E scores \in CoreScores :
         chatbots_pool = <<[Chatbot(Uuid4(0), TOPICS[1]) EXCEPT !.rubric_scores = scores]>>
    /\ data_records = << >>
    /\ result = NoCall
    /\ topics_selected = {}
    /\ uuids_issued = Len(chatbots_pool)
    /\ clock = 0
    /\ df = << >>
    /\ outputs = {}
    /\ calls = << >>

NextCoreTotal == CoreGetTotalScore

SpecCoreTotal == InitCoreTotal /\ [][NextCoreTotal]_vars

\* ================================================================ claims

\* sum(score[d] * weight[d]) over the dimensions: the total in hundredths,
\* as exact integer arithmetic gives it.
ExactHundredths(scores, dims) ==
    LET partial[k \in 0..Len(dims)] ==
            IF k = 0 THEN 0
            ELSE partial[k - 1] + scores[dims[k].name] * dims[k].weight
    IN  partial[Len(dims)]

\* C1 (SpecTotal): for a chatbot holding a legal score for every dimension of
\* a rubric whose weights sum to 100, calculate_total_weighted_score returns
\* sum(score * weight) / 100 to two decimals, a value between 1.0 and 5.0.
C1_TotalIsWeightedAverageInRange ==
    ( /\ result.op = "calculate_total_weighted_score"
      /\ SumWeights(result.args.rubric_dimensions) = 100
      /\ result.args.before \in FullScores(result.args.rubric_dimensions) )
    => /\ result.error = ""
       /\ result.value = ExactHundredths(result.args.before, result.args.rubric_dimensions)
       /\ 100 <= result.value
       /\ result.value <= 500

\* C1 witness: the shipped rubric, every score 5, the total 5.0.
C1_Witness ==
    /\ result.op = "calculate_total_weighted_score"
    /\ result.args.rubric_dimensions = MORAL_GRAPH_RUBRIC_DIMENSIONS
    /\ \A n \in DOMAIN result.args.before : result.args.before[n] = 5
    /\ result.value = 500

\* The ParticipantID values of a table.
ParticipantIds(rows) == {rows[k].ParticipantID : k \in 1..Len(rows)}

\* The AssignmentType values of a participant's rows, in the order of the table.
RolesOf(rows, participant_id) ==
    LET mine == SelectSeq(rows, LAMBDA row : row.ParticipantID = participant_id)
    IN  [k \in 1..Len(mine) |-> mine[k].AssignmentType]

\* C2 (Spec): simulate_experiment(N), N >= 1, returns under the shipped
\* rubric, and the table it returns has 2N rows and N distinct ParticipantID
\* values, each with one "strength" and one "weakness" row.
C2_TwoRowsPerParticipant ==
    /\ (module_rubric = MORAL_GRAPH_RUBRIC_DIMENSIONS /\ num_participants >= 1) =>
          pc # "raised"
    /\ pc = "returned" =>
        /\ result.error = ""
        /\ Len(result.value) = 2 * num_participants
        /\ Cardinality(ParticipantIds(result.value)) = num_participants
        /\ \A participant_id \in ParticipantIds(result.value) :
              Range(RolesOf(result.value, participant_id)) = {"strength", "weakness"}
              /\ Len(RolesOf(result.value, participant_id)) = 2

\* C2 witness: a run of two participants has returned its table.
C2_Witness ==
    /\ pc = "returned"
    /\ num_participants = 2
    /\ Len(result.value) = 4

C5_OneChatbotPerRole ==
    (result.op = "assign_chatbots_to_participant" /\ result.error = "") =>
        LET p        == participant[1]
            assigned == p.assigned_chatbots
        IN  /\ DOMAIN assigned = {"strength", "weakness"}
            /\ \A key \in DOMAIN assigned : assigned[key] \in 1..Len(chatbots_pool)
            /\ chatbots_pool[assigned["strength"]].specialization = result.args.strength_topic
            /\ chatbots_pool[assigned["weakness"]].specialization = result.args.weakness_topic
            /\ p.strengths # {} =>
                  chatbots_pool[assigned["strength"]].specialization \in p.strengths
            /\ p.weaknesses # {} =>
                  chatbots_pool[assigned["weakness"]].specialization \in p.weaknesses

\* C5 witness: a participant of two strengths and two weaknesses is assigned.
C5_Witness ==
    /\ result.op = "assign_chatbots_to_participant"
    /\ result.error = ""
    /\ Cardinality(participant[1].strengths) = 2
    /\ Cardinality(participant[1].weaknesses) = 1
    /\ DOMAIN participant[1].assigned_chatbots = {"strength", "weakness"}

\* C6 (SpecAssign), as claimed: the two chatbots assigned to an accepted
\* participant have different chatbot_ids.
C6_DistinctChatbotsAsClaimed ==
    (result.op = "assign_chatbots_to_participant" /\ result.error = "") =>
        chatbots_pool[participant[1].assigned_chatbots["strength"]].chatbot_id
            # chatbots_pool[participant[1].assigned_chatbots["weakness"]].chatbot_id

\* The weights of a rubric list, summed over its positions.
WeightTotal(dims) ==
    LET partial[k \in 0..Len(dims)] ==
            IF k = 0 THEN 0 ELSE partial[k - 1] + dims[k].weight
    IN  partial[Len(dims)]

\* C7 (Spec): the weights of the rubric of a loaded module sum to 100; the
\* import of a rubric with another sum ends in the error, and nothing is
\* scored or simulated unless the module is loaded.
C7_RubricWeightsSumTo100 ==
    /\ module_state = "loaded" => WeightTotal(module_rubric) = 100
    /\ (module_state # "unloaded" /\ WeightTotal(module_rubric) # 100) =>
          module_state = "ConfigError"
    /\ module_state # "loaded" =>
          /\ pc = "idle"
          /\ result.op = ""
          /\ participant = << >>
          /\ chatbots_pool = << >>
          /\ data_records = << >>

\* C7 witness: the import of a rubric whose weights sum to 95 has failed.
C7_Witness ==
    /\ module_state = "ConfigError"
    /\ module_rubric = UnderweightRubric
    /\ WeightTotal(module_rubric) = 95

\* C8 (Spec): a Participant whose strengths and weaknesses share a topic is
\* rejected with ValueError, so every Participant there is, built by a
\* caller or by simulate_experiment, has disjoint strengths and weaknesses.
C8_StrengthsWeaknessesDisjoint ==
    /\ participant # << >> =>
          participant[1].strengths \cap participant[1].weaknesses = {}
    /\ (result.op = "Participant"
          /\ result.args.strengths \cap result.args.weaknesses # {}) =>
          (result.error = "ValueError" /\ participant = << >>)

\* C8 witness: a construction with a shared topic was rejected although the
\* id and every topic were valid.
C8_Witness ==
    /\ result.op = "Participant"
    /\ result.args.participant_id # << >>
    /\ result.args.strengths \cup result.args.weaknesses \subseteq Range(TOPICS)
    /\ result.args.strengths \cap result.args.weaknesses # {}
    /\ result.error = "ValueError"

\* C9 (Spec), as claimed: a Participant with no strength or no weakness is
\* rejected, so every Participant has at least one of each.
C9_NonEmptyAsClaimed ==
    /\ participant # << >> =>
          (participant[1].strengths # {} /\ participant[1].weaknesses # {})
    /\ (result.op = "Participant"
          /\ (result.args.strengths = {} \/ result.args.weaknesses = {})) =>
          result.error = "ValueError"

\* C10 (SpecScore): when score_chatbot_interaction has returned, the keys of
\* the chatbot's rubric_scores are the names of the rubric's dimensions, one
\* entry per dimension, whatever the chatbot held before.
C10_ScoresReplaced ==
    (result.op = "score_chatbot_interaction" /\ result.error = "") =>
        LET scores == chatbots_pool[result.args.chatbot].rubric_scores
            dims   == result.args.rubric_dimensions
        IN  /\ DOMAIN scores = {dims[j].name : j \in 1..Len(dims)}
            /\ Cardinality(DOMAIN scores) = Len(dims)
            /\ scores = result.value

\* C10 witness: a chatbot scored under the shipped rubric is scored again
\* under a rubric of other dimensions.
C10_Witness ==
    /\ result.op = "score_chatbot_interaction"
    /\ result.error = ""
    /\ result.args.rubric_dimensions = TwoDimRubric
    /\ DOMAIN result.args.before = DimNames(MORAL_GRAPH_RUBRIC_DIMENSIONS)
    /\ DOMAIN chatbots_pool[result.args.chatbot].rubric_scores = {"Accuracy", "Clarity"}

\* C11 (SpecScore), as claimed: for every non-empty rubric whose dimensions
\* all pass RubricDimension's validation, score_chatbot_interaction returns,
\* and the score of each dimension is one of its possible_scores.
C11_DrawnFromDomainAsClaimed ==
    ( /\ result.op = "score_chatbot_interaction"
      /\ result.args.rubric_dimensions # << >>
      /\ \A j \in 1..Len(result.args.rubric_dimensions) :
            RubricDimensionPostInit(result.args.rubric_dimensions[j]) = "" )
    => /\ result.error = ""
       /\ \A j \in 1..Len(result.args.rubric_dimensions) :
            LET dimension == result.args.rubric_dimensions[j]
            IN  /\ dimension.name \in DOMAIN result.value
                /\ result.value[dimension.name] \in Range(dimension.possible_scores)

\* C12 (SpecScore): calculate_total_weighted_score raises ValueError when
\* the chatbot's rubric_scores lack the name of a dimension of the rubric,
\* the empty rubric_scores included, and the chatbot's rubric_scores are
\* then what they were before the call.
C12_MissingScoreRaises ==
    ( /\ result.op = "calculate_total_weighted_score"
      /\ \E j \in 1..Len(result.args.rubric_dimensions) :
            result.args.rubric_dimensions[j].name \notin DOMAIN result.args.before )
    => /\ result.error = "ValueError"
       /\ chatbots_pool[result.args.chatbot].rubric_scores = result.args.before

\* C12 witness: a chatbot that holds scores, though not for every dimension
\* of the rubric handed in, made the call raise.
C12_Witness ==
    /\ result.op = "calculate_total_weighted_score"
    /\ result.error = "ValueError"
    /\ result.args.rubric_dimensions = MORAL_GRAPH_RUBRIC_DIMENSIONS
    /\ DOMAIN result.args.before = {"Accuracy", "Clarity"}
    /\ chatbots_pool[result.args.chatbot].rubric_scores = result.args.before

\* C13 (SpecRubric), as claimed: the construction of a RubricDimension, of
\* either class, fails when the weight is outside 1..100, when
\* possible_scores is empty or when a possible score is outside 1..5; a
\* weight of 0 is never accepted.
C13_InvalidDimensionRejectedAsClaimed ==
    ( /\ result.op = "RubricDimension"
      /\ \/ result.args.dimension.weight \notin 1..100
         \/ result.args.dimension.possible_scores = << >>
         \/ \E score \in Range(result.args.dimension.possible_scores) :
                score \notin 1..5 )
    => /\ result.error = "ValueError"
       /\ result.value = << >>

\* C14 (Spec): every chatbot of the pool and every Specialization of the
\* records and of the returned table is one of the 8 topics, and the
\* construction of a Chatbot whose specialization is none of them raises
\* ValueError.
C14_SpecializationIsTopic ==
    /\ Cardinality(Range(TOPICS)) = 8
    /\ \A k \in 1..Len(chatbots_pool) : chatbots_pool[k].specialization \in Range(TOPICS)
    /\ \A k \in 1..Len(data_records) : data_records[k].Specialization \in Range(TOPICS)
    /\ pc = "returned" =>
          \A k \in 1..Len(result.value) : result.value[k].Specialization \in Range(TOPICS)
    /\ (result.op = "Chatbot" /\ result.args.specialization \notin Range(TOPICS)) =>
          (result.error = "ValueError" /\ result.value = << >>)
    /\ (result.op = "Chatbot" /\ result.error = "") =>
          result.value[1].specialization \in Range(TOPICS)

\* C14 witness: a Chatbot with a well-formed id and the specialization
\* "Invalid Topic" was rejected.
C14_Witness ==
    /\ result.op = "Chatbot"
    /\ result.args.chatbot_id # << >>
    /\ result.args.specialization = InvalidTopic
    /\ result.error = "ValueError"

C17_SeededRunsIdenticalAsClaimed ==
    \A a, b \in 1..Len(calls) :
        ( /\ calls[a].op = "simulate_experiment"
          /\ calls[b].op = "simulate_experiment"
          /\ calls[a].error = ""
          /\ calls[b].error = ""
          /\ calls[a].args = calls[b].args )
        => calls[a].value = calls[b].value

\* C15 (SpecReport), as claimed: whatever reporting operations have run on
\* the table simulate_experiment returned, the table the caller holds is
\* cell for cell, types included, the table as it was returned.
C15_ReportsOnlyReadAsClaimed ==
    df # << >> => df[1] = result.value

\* C18 (SpecReport): a generate_summary_report (of visualization.py or of
\* main.py) on a table that has the columns it reads returns the statistics
\* of the table as simulate_experiment returned it and leaves the table as it
\* found it; and two calls of the same function end alike and return the same
\* statistics.
C18_ReportIdempotent ==
    /\ \A a \in 1..Len(calls) :
          /\ calls[a].op = "generate_summary_report" =>
              /\ calls[a].value.data = calls[a].args.data
              /\ "TotalWeightedScore" \in Columns(result.value) =>
                    /\ calls[a].error = ""
                    /\ calls[a].value.summary =
                           Summary(result.value, MORAL_GRAPH_RUBRIC_DIMENSIONS)
          /\ calls[a].op = "main.generate_summary_report" =>
              /\ calls[a].value.data = calls[a].args.data
              /\ "weighted_score" \in Columns(result.value) =>
                    /\ calls[a].error = ""
                    /\ calls[a].value.summary = MainSummary(result.value)
    /\ \A a, b \in 1..Len(calls) :
          calls[a].op = calls[b].op =>
              /\ calls[a].error = calls[b].error
              /\ calls[a].error = "" => calls[a].value.summary = calls[b].value.summary

\* C18 witness: two reports of a two-row table whose rows differ in their
\* total were made, and the report file is written.
C18_Witness ==
    /\ Len(calls) = 2
    /\ calls[1].op = "generate_summary_report"
    /\ calls[2].op = "generate_summary_report"
    /\ calls[1].error = ""
    /\ calls[1].value.summary.OverallStatistics.count = 2
    /\ calls[2].value.summary.OverallStatistics.std # <<0, 1>>
    /\ "summary_report.txt" \in outputs

\* C19 (SpecApi): a request whose JSON object carries a participantCount that
\* is no JSON integer, or an integer outside MIN_PARTICIPANTS..MAX_PARTICIPANTS,
\* is answered with status 400 and an error message and makes no invocation of
\* simulate_experiment; and whatever the request, simulate_experiment is
\* invoked with a count inside MIN_PARTICIPANTS..MAX_PARTICIPANTS only.
C19_BadCountRejected ==
    /\ ( /\ result.op = "POST /api/simulate"
         /\ result.args.is_json
         /\ result.args.json[1] = "object"
         /\ "participantCount" \in DOMAIN result.args.json[2]
         /\ LET v == result.args.json[2]["participantCount"]
            IN  IF v[1] = "int"
                THEN v[2] \notin MIN_PARTICIPANTS..MAX_PARTICIPANTS
                ELSE TRUE )
       => /\ result.value.status = 400
          /\ "error" \in DOMAIN result.value.body
          /\ result.value.body.error # ""
          /\ calls = << >>
    /\ \A k \in 1..Len(calls) :
          calls[k].op = "simulate_experiment" =>
              calls[k].args.num_participants \in MIN_PARTICIPANTS..MAX_PARTICIPANTS

\* C19 witness: the request with participantCount 10001 was answered with
\* status 400 and the message of the range check, and nothing was invoked.
C19_Witness ==
    /\ result.op = "POST /api/simulate"
    /\ result.args.is_json
    /\ result.args.json = <<"object", [participantCount |-> <<"int", 10001>>]>>
    /\ result.value = Response(400, [error |-> BetweenMessage])
    /\ calls = << >>

\* C20 (SpecApi), as claimed: a request whose JSON object has no
\* participantCount field is answered with status 400 and an error message,
\* and no simulation is run for it.
C20_MissingCountRejectedAsClaimed ==
    ( /\ result.op = "POST /api/simulate"
      /\ result.args.is_json
      /\ result.args.json[1] = "object"
      /\ "participantCount" \notin DOMAIN result.args.json[2] )
    => /\ result.value.status = 400
       /\ "error" \in DOMAIN result.value.body
       /\ calls = << >>

\* C21 (Spec): the records, and the table returned, are in insertion order:
\* rows 2i-1 and 2i are those of participant i (P0001, P0002, ...), the
\* "strength" row first and the "weakness" row second.
C21_InsertionOrder ==
    /\ \A r \in 1..Len(data_records) :
          /\ data_records[r].ParticipantID = ParticipantId((r + 1) \div 2)
          /\ data_records[r].AssignmentType = IF r % 2 = 1 THEN "strength" ELSE "weakness"
    /\ pc = "returned" => result.value = data_records

\* C21 witness: a run of two participants has returned; the rows of P0001
\* come first, and the third row is the strength row of P0002.
C21_Witness ==
    /\ pc = "returned"
    /\ Len(result.value) = 4
    /\ result.value[2].ParticipantID = <<"P", "0", "0", "0", "1">>
    /\ result.value[3].ParticipantID = <<"P", "0", "0", "0", "2">>
    /\ result.value[3].AssignmentType = "strength"

\* C26 (Spec): no step alters a record appended earlier, every record's
\* TotalWeightedScore is the weighted sum, rounded to 2 decimals, of that
\* record's own scores, and the table returned is the list of the records.
C26_RowTotalsKept ==
    [][ /\ \A k \in 1..Len(data_records) :
              /\ k <= Len(data_records')
              /\ data_records'[k] = data_records[k]
        /\ \A k \in 1..Len(data_records') :
              data_records'[k].TotalWeightedScore =
                  Round2(WeightedSum(data_records'[k].scores, module_rubric))
        /\ pc' = "returned" => result'.value = data_records' ]_vars

\* C26 witness: the table returned has two rows of one chatbot, scored for
\* two participants with different scores and different totals; the earlier
\* row no longer shows the scores the chatbot holds.
C26_Witness ==
    /\ pc = "returned"
    /\ \E a, b \in 1..Len(result.value) :
          /\ a < b
          /\ result.value[a].ChatbotID = result.value[b].ChatbotID
          /\ result.value[a].scores # result.value[b].scores
          /\ result.value[a].TotalWeightedScore # result.value[b].TotalWeightedScore
          /\ \E c \in 1..Len(chatbots_pool) :
                /\ chatbots_pool[c].chatbot_id = result.value[a].ChatbotID
                /\ chatbots_pool[c].rubric_scores # result.value[a].scores

\* C27 (Spec): two records, and two rows of the table returned, have the same
\* ChatbotID if and only if they have the same Specialization, and each
\* shows the id and the specialization of a chatbot of the pool.
C27_ChatbotIdIffSpecialization ==
    /\ \A a, b \in 1..Len(data_records) :
          (data_records[a].ChatbotID = data_records[b].ChatbotID)
              <=> (data_records[a].Specialization = data_records[b].Specialization)
    /\ \A a \in 1..Len(data_records) :
          \E c \in 1..Len(chatbots_pool) :
              /\ chatbots_pool[c].chatbot_id = data_records[a].ChatbotID
              /\ chatbots_pool[c].specialization = data_records[a].Specialization
    /\ pc = "returned" => result.value = data_records

\* C27 witness: in the table returned the two participants share the chatbot
\* of one topic, and the rows of one participant show two chatbots.
C27_Witness ==
    /\ pc = "returned"
    /\ Len(result.value) = 4
    /\ result.value[1].ChatbotID = result.value[3].ChatbotID
    /\ result.value[1].Specialization = result.value[3].Specialization
    /\ result.value[1].ChatbotID # result.value[2].ChatbotID

\* ----------------------------------------------------------------- dense runs

\* The id of participant k of a dense run whose first UUID was drawn after
\* issued others.
DenseParticipantId(issued, k) == Uuid4(issued + k - 1)

\* The rows of a table that carry a participant id, in the order of the table.
RowsOfParticipant(table, participant_id) ==
    SelectSeq(table, LAMBDA row : row.ParticipantID = participant_id)

\* The participants of a tape whose generation ran to its end.
Succeeded(tape) == {k \in DOMAIN tape : ~Faulty(tape[k])}

\* C22: in the dense variant an error raised while one participant's
\* interactions are generated is caught and the participant is skipped: the
\* table holds every interaction of every participant whose generation
\* succeeded (as many rows as passes, each with what its pass drew), no row of
\* a failed participant, and the run returns as soon as one participant
\* succeeded.
C22_FailedParticipantSkipped ==
    (result.op = "simulate_experiment" /\ result.args.num_participants >= 1) =>
        LET tape == result.args.tape
            table == result.value
        IN  /\ Succeeded(tape) # {} => result.error = ""
            /\ \A k \in DOMAIN tape :
                  LET participant_id == DenseParticipantId(result.args.issued, k)
                      rows == RowsOfParticipant(table, participant_id)
                  IN  IF k \in Succeeded(tape)
                      THEN /\ Len(rows) = tape[k].num_interactions
                           /\ \A j \in 1..Len(rows) :
                                 LET made == Interaction(participant_id, CountsBefore(tape[k], j),
                                                         tape[k].passes[j], 0).interaction
                                 IN  /\ rows[j].Specialization = made.Specialization
                                     /\ rows[j].InteractionType = made.InteractionType
                                     /\ rows[j].scores = made.scores
                                     /\ rows[j].TotalWeightedScore = made.TotalWeightedScore
                      ELSE rows = << >>
            /\ \A r, q \in 1..Len(table) :
                  table[r].InteractionID = table[q].InteractionID => r = q

\* A run of two participants returned after the generation of one of them
\* raised: the table holds the rows of the other.
C22_Witness ==
    /\ result.op = "simulate_experiment"
    /\ result.args.num_participants = 2
    /\ Faulty(result.args.tape[1])
    /\ result.args.tape[1].fault = MIN_INTERACTIONS
    /\ ~Faulty(result.args.tape[2])
    /\ result.error = ""
    /\ Len(result.value) = result.args.tape[2].num_interactions

\* C23: the dense simulate_experiment never returns an empty table: it
\* raises RuntimeError exactly when, all participants processed, none of them
\* produced an interaction, and with a count of at least 1 and no generation
\* failure it returns.
C23_NeverEmptyTable ==
    result.op = "simulate_experiment" =>
        LET n == result.args.num_participants
            tape == result.args.tape
        IN  /\ result.error = "" => result.value # << >>
            /\ result.error = "RuntimeError" <=> (n >= 1 /\ Succeeded(tape) = {})
            /\ (n >= 1 /\ Succeeded(tape) = DOMAIN tape) =>
                  (result.error = "" /\ result.value # << >>)
            /\ n < 1 => result.error = "ValueError"

\* The generation of both participants of a run raised, and the run raised
\* RuntimeError after the second.
C23_Witness ==
    /\ result.op = "simulate_experiment"
    /\ result.args.num_participants = 2
    /\ Succeeded(result.args.tape) = {}
    /\ result.error = "RuntimeError"
    /\ uuids_issued = 2 + Drawn(Uuid4(0), result.args.tape[1])
                         + Drawn(Uuid4(1), result.args.tape[2])

C25_ScoresLegalAndTotalInRange ==
    (result.op = "generate_participant_interactions" /\ result.error = "") =>
        \A j \in 1..Len(result.value) :
            LET made == result.value[j]
                draw == result.args.draws.passes[j]
                legal == {100 + 50 * step : step \in 0..8}
                within(x) == IF x < 100 THEN 100 ELSE IF x > 500 THEN 500 ELSE x
            IN  /\ Range(POSSIBLE_SCORES) = legal
                /\ WeightedScoreSum([d \in DOMAIN SCORE_WEIGHTS |-> 1], DOMAIN SCORE_WEIGHTS) = 100
                /\ \A dimension \in DOMAIN SCORE_WEIGHTS :
                      LET score == made.scores[dimension]
                          drawn == within(within(draw.base) + draw.noise[dimension])
                      IN  /\ score \in legal
                          /\ score >= 100 /\ score <= 500
                          /\ \A other \in legal : Abs(score - drawn) <= Abs(other - drawn)
                /\ made.TotalWeightedScore >= 100
                /\ made.TotalWeightedScore <= 500

\* An interaction whose base draw lay below the scale: a dimension whose
\* noise was negative has the score 1.0, the one whose noise was 1.6 the
\* score 2.5, and the total lies strictly between the two.
C25_Witness ==
    /\ result.op = "generate_participant_interactions"
    /\ result.error = ""
    /\ result.args.draws.passes[1].base < 100
    /\ result.args.draws.passes[1].noise.Accuracy = -150
    /\ result.args.draws.passes[1].noise.Ethics = 160
    /\ result.value[1].scores.Accuracy = 100
    /\ result.value[1].scores.Ethics = 250
    /\ result.value[1].TotalWeightedScore > 100
    /\ result.value[1].TotalWeightedScore < 250

\* -------------------------------------------------------- moral_graph/core.py

\* C28: through any sequence of set_score calls on a chatbot that started
\* without scores, every key of rubric_scores names a dimension of the rubric
\* and every value equals one of that dimension's possible_scores; a call
\* with an unknown dimension or an illegal score raises ValueError and leaves
\* rubric_scores as it was, and no other call raises.
C28_SetScoreKeepsScoresLegal ==
    [][LET dims == MORAL_GRAPH_RUBRIC_DIMENSIONS
           after == chatbots_pool'[1].rubric_scores
           legal(name) == {100 * dims[k].possible_scores[j] :
                              k \in {k \in 1..Len(dims) : dims[k].name = name},
                              j \in 1..5}
       IN  /\ DOMAIN after \subseteq DimNames(dims)
           /\ \A name \in DOMAIN after :
                 after[name][1] = "float" /\ after[name][2] \in legal(name)
           /\ result'.op = "set_score" =>
                 LET dimension == result'.args.dimension
                     score == result'.args.score
                     bad == \/ dimension \notin DimNames(dims)
                            \/ ~IsNumber(score)
                            \/ Hundredths(score) \notin legal(dimension)
                 IN  /\ bad <=> result'.error = "ValueError"
                     /\ bad => chatbots_pool' = chatbots_pool
                     /\ ~bad =>
                           /\ result'.error = ""
                           /\ after[dimension][2] = Hundredths(score)
                           /\ \A name \in DOMAIN chatbots_pool[1].rubric_scores \ {dimension} :
                                 after[name] = chatbots_pool[1].rubric_scores[name]]_vars

\* The chatbot holds two scores, and the last call, with a score between two
\* points of the scale, raised.
C28_Witness ==
    /\ result.op = "set_score"
    /\ result.error = "ValueError"
    /\ result.args.dimension \in DimNames(MORAL_GRAPH_RUBRIC_DIMENSIONS)
    /\ result.args.score = <<"float", 250>>
    /\ Cardinality(DOMAIN chatbots_pool[1].rubric_scores) = 2

\* C29: assign_chatbot never replaces an assignment: a call for a topic that
\* has a chatbot, or for a topic outside the enumeration, raises ValueError
\* and leaves assigned_chatbots as it was, so that every key keeps the first
\* chatbot assigned to it; any other call assigns.
C29_AssignmentNeverReplaced ==
    [][LET before == participant[1].assigned_chatbots
           after == participant'[1].assigned_chatbots
       IN  /\ \A topic \in DOMAIN before :
                 topic \in DOMAIN after /\ after[topic] = before[topic]
           /\ DOMAIN after \subseteq Range(TOPICS)
           /\ result'.op = "assign_chatbot" =>
                 LET topic == result'.args.topic
                     refused == topic \notin Range(TOPICS) \/ topic \in DOMAIN before
                 IN  /\ refused <=> result'.error = "ValueError"
                     /\ refused => after = before
                     /\ ~refused =>
                           /\ DOMAIN after = DOMAIN before \cup {topic}
                           /\ after[topic] = result'.args.chatbot]_vars

\* A topic holds the first chatbot, and the call that would have given it the
\* second raised.
C29_Witness ==
    /\ result.op = "assign_chatbot"
    /\ result.error = "ValueError"
    /\ result.args.topic \in DOMAIN participant[1].assigned_chatbots
    /\ result.args.chatbot = 2
    /\ participant[1].assigned_chatbots[result.args.topic] = 1

\* C30: for a chatbot with a legal score for every dimension of the rubric,
\* get_total_score returns what calculate_total_weighted_score returns on the
\* same scores and the rubric, a value in [1.0, 5.0]; the two agree wherever
\* calculate_total_weighted_score returns a value.
C30_TotalsAgree ==
    result.op = "get_total_score" =>
        LET scores == result.args.rubric_scores
            dims == MORAL_GRAPH_RUBRIC_DIMENSIONS
            numbers == [d \in DOMAIN scores |-> scores[d][2] \div 100]
            calculated == CalculateTotalWeightedScore(numbers, dims)
        IN  /\ DOMAIN scores = DimNames(dims) => calculated.error = ""
            /\ calculated.error = "" =>
                  /\ result.value = calculated.value
                  /\ result.value >= 100
                  /\ result.value <= 500

\* get_total_score returned, for a chatbot whose scores run from 1 to 5 over
\* the dimensions, the total calculate_total_weighted_score makes of them.
C30_Witness ==
    /\ result.op = "get_total_score"
    /\ DOMAIN result.args.rubric_scores = DimNames(MORAL_GRAPH_RUBRIC_DIMENSIONS)
    /\ {result.args.rubric_scores[d][2] : d \in DOMAIN result.args.rubric_scores}
          = {100, 200, 300, 400, 500}
    /\ result.value > 100
    /\ result.value < 500
    /\ result.value =
          CalculateTotalWeightedScore(
              [d \in DOMAIN result.args.rubric_scores |->
                  result.args.rubric_scores[d][2] \div 100],
              MORAL_GRAPH_RUBRIC_DIMENSIONS).value

====
